---- MODULE Spec2Model ----
\* Artifact reconciliation in the image API (src/app/api/main.py): the
\* upload directory, the session memory, the poller wait_for_images and the
\* generate / edit / chat request handlers.
EXTENDS Integers, Sequences, FiniteSets, TLC

\* ------------------------------------------------------------------
\* Bounds of the model
\* ------------------------------------------------------------------
\* files written to the upload directory, by anyone
MaxWrites == 1
\* requests served one after the other
MaxRequests == 2
\* direct calls of wait_for_images
MaxCalls == 2
\* files uploaded while wait_for_images is called directly
MaxEnvWrites == 2
\* latest time at which a request or an upload may arrive
Horizon == 2
\* files uploaded while the termination of wait_for_images is checked
MaxFairWrites == 1
\* tool invocations, one after the other
MaxInvocations == 2
\* files uploaded while tools are invoked
MaxToolUploads == 1
\* the longer side of the widest and of the tallest grid image
MaxSide == 24
\* files in the upload directory when the service is first asked
MaxStock == 6
\* requests in flight at once, each about to update the session memory
MaxTasks == 3
\* direct calls of the session memory's setters
MaxRecords == 16
\* distinct names passed to the setters
MaxNames == 12

\* ------------------------------------------------------------------
\* Program constants
\* ------------------------------------------------------------------
DefaultMaxWaitTime == 90
DefaultPollInterval == 2
DefaultLimit == 100
GenerateLimit == 4
EditLimit == 1
ChatListLimit == 10
ChatLimit == 4
ChatSleep == 2
ChatSlack == 5
RecentCapacity == 10

\* ------------------------------------------------------------------
\* Text: a Python str is the sequence of its characters
\* ------------------------------------------------------------------
\* "Error:"
ErrorColon ==
  <<"E","r","r","o","r",":">>
\* "error"
ErrorLower ==
  <<"e","r","r","o","r">>
\* "failed"
FailedLower ==
  <<"f","a","i","l","e","d">>
\* "cannot edit"
CannotEditLower ==
  <<"c","a","n","n","o","t"," ","e","d","i","t">>
\* "only generate"
OnlyGenerateLower ==
  <<"o","n","l","y"," ","g","e","n","e","r","a","t","e">>
\* "I cannot"
ICannot ==
  <<"I"," ","c","a","n","n","o","t">>
\* "Error"
ErrorCap ==
  <<"E","r","r","o","r">>
\* "cannot"
CannotLower ==
  <<"c","a","n","n","o","t">>
\* "Successfully generated "
SuccessfullyGeneratedPrefix ==
  <<"S","u","c","c","e","s","s","f","u","l","l","y"," ","g","e","n","e","r",
    "a","t","e","d"," ">>
\* " image(s)"
ImagesSuffix ==
  <<" ","i","m","a","g","e","(","s",")">>
\* "Image edited successfully"
ImageEditedSuccessfully ==
  <<"I","m","a","g","e"," ","e","d","i","t","e","d"," ","s","u","c","c","e",
    "s","s","f","u","l","l","y">>
\* "No images generated. "
NoImagesGenerated ==
  <<"N","o"," ","i","m","a","g","e","s"," ","g","e","n","e","r","a","t","e",
    "d","."," ">>
\* "Found "
FoundPrefix ==
  <<"F","o","u","n","d"," ">>
\* " other image(s) in uploads directory."
OtherImagesSuffix ==
  <<" ","o","t","h","e","r"," ","i","m","a","g","e","(","s",")"," ","i","n",
    " ","u","p","l","o","a","d","s"," ","d","i","r","e","c","t","o","r","y",
    ".">>
\* "No PNG files found in uploads directory."
NoPngFilesFound ==
  <<"N","o"," ","P","N","G"," ","f","i","l","e","s"," ","f","o","u","n","d",
    " ","i","n"," ","u","p","l","o","a","d","s"," ","d","i","r","e","c","t",
    "o","r","y",".">>
\* "Edited image not found. The agent may still be processing."
EditedImageNotFound ==
  <<"E","d","i","t","e","d"," ","i","m","a","g","e"," ","n","o","t"," ","f",
    "o","u","n","d","."," ","T","h","e"," ","a","g","e","n","t"," ","m","a",
    "y"," ","s","t","i","l","l"," ","b","e"," ","p","r","o","c","e","s","s",
    "i","n","g",".">>
\* "No image available to edit. Please provide image_filename or generate an image first."
NoImageAvailable ==
  <<"N","o"," ","i","m","a","g","e"," ","a","v","a","i","l","a","b","l","e",
    " ","t","o"," ","e","d","i","t","."," ","P","l","e","a","s","e"," ","p",
    "r","o","v","i","d","e"," ","i","m","a","g","e","_","f","i","l","e","n",
    "a","m","e"," ","o","r"," ","g","e","n","e","r","a","t","e"," ","a","n",
    " ","i","m","a","g","e"," ","f","i","r","s","t",".">>
\* "Response received"
ResponseReceived ==
  <<"R","e","s","p","o","n","s","e"," ","r","e","c","e","i","v","e","d">>
\* "Error generating images: "
ErrorGeneratingImages ==
  <<"E","r","r","o","r"," ","g","e","n","e","r","a","t","i","n","g"," ","i",
    "m","a","g","e","s",":"," ">>
\* "Error editing image: "
ErrorEditingImage ==
  <<"E","r","r","o","r"," ","e","d","i","t","i","n","g"," ","i","m","a","g",
    "e",":"," ">>
\* "Error processing message: "
ErrorProcessingMessage ==
  <<"E","r","r","o","r"," ","p","r","o","c","e","s","s","i","n","g"," ","m",
    "e","s","s","a","g","e",":"," ">>
\* "generate"
KwGenerate ==
  <<"g","e","n","e","r","a","t","e">>
\* "create"
KwCreate ==
  <<"c","r","e","a","t","e">>
\* "make"
KwMake ==
  <<"m","a","k","e">>
\* "show me"
KwShowMe ==
  <<"s","h","o","w"," ","m","e">>
\* "image"
KwImage ==
  <<"i","m","a","g","e">>
\* "picture"
KwPicture ==
  <<"p","i","c","t","u","r","e">>
\* "dress"
KwDress ==
  <<"d","r","e","s","s">>
\* "outfit"
KwOutfit ==
  <<"o","u","t","f","i","t">>
\* "successfully generated"
KwSuccessfullyGenerated ==
  <<"s","u","c","c","e","s","s","f","u","l","l","y"," ","g","e","n","e","r",
    "a","t","e","d">>
\* "i've generated"
KwIveGenerated ==
  <<"i","'","v","e"," ","g","e","n","e","r","a","t","e","d">>
\* "generated images"
KwGeneratedImages ==
  <<"g","e","n","e","r","a","t","e","d"," ","i","m","a","g","e","s">>
\* "successfully edited"
KwSuccessfullyEdited ==
  <<"s","u","c","c","e","s","s","f","u","l","l","y"," ","e","d","i","t","e",
    "d">>
\* "i've edited"
KwIveEdited ==
  <<"i","'","v","e"," ","e","d","i","t","e","d">>
\* "edited image"
KwEditedImage ==
  <<"e","d","i","t","e","d"," ","i","m","a","g","e">>
\* ""
MsgEmpty == <<>>
\* "Error: cannot edit"
MsgErrorCannotEdit ==
  <<"E","r","r","o","r",":"," ","c","a","n","n","o","t"," ","e","d","i",
    "t">>
\* "Done"
MsgDone ==
  <<"D","o","n","e">>
\* "I cannot do it"
MsgICannot ==
  <<"I"," ","c","a","n","n","o","t"," ","d","o"," ","i","t">>
\* "We cannot help"
MsgWeCannot ==
  <<"W","e"," ","c","a","n","n","o","t"," ","h","e","l","p">>
\* "I only generate"
MsgOnlyGenerate ==
  <<"I"," ","o","n","l","y"," ","g","e","n","e","r","a","t","e">>
\* "It FAILED"
MsgFailed ==
  <<"I","t"," ","F","A","I","L","E","D">>
\* "Successfully generated 4"
MsgClaimsSuccess ==
  <<"S","u","c","c","e","s","s","f","u","l","l","y"," ","g","e","n","e","r",
    "a","t","e","d"," ","4">>
\* "hello"
AskHello ==
  <<"h","e","l","l","o">>
\* "Make a dress"
AskMakeDress ==
  <<"M","a","k","e"," ","a"," ","d","r","e","s","s">>
\* "runner crashed"
RunnerCrashed ==
  <<"r","u","n","n","e","r"," ","c","r","a","s","h","e","d">>

UpperToLower ==
  [c \in {"A","B","C","D","E","F","G","H","I","J","K","L","M","N","O","P",
          "Q","R","S","T","U","V","W","X","Y","Z"} |->
     CASE c = "A" -> "a" [] c = "B" -> "b" [] c = "C" -> "c" [] c = "D" -> "d"
       [] c = "E" -> "e" [] c = "F" -> "f" [] c = "G" -> "g" [] c = "H" -> "h"
       [] c = "I" -> "i" [] c = "J" -> "j" [] c = "K" -> "k" [] c = "L" -> "l"
       [] c = "M" -> "m" [] c = "N" -> "n" [] c = "O" -> "o" [] c = "P" -> "p"
       [] c = "Q" -> "q" [] c = "R" -> "r" [] c = "S" -> "s" [] c = "T" -> "t"
       [] c = "U" -> "u" [] c = "V" -> "v" [] c = "W" -> "w" [] c = "X" -> "x"
       [] c = "Y" -> "y" [] c = "Z" -> "z"]

\* str.lower()
Lower(s) ==
  [i \in 1..Len(s) |-> IF s[i] \in DOMAIN UpperToLower THEN UpperToLower[s[i]] ELSE s[i]]

\* sub in s
Contains(sub, s) ==
  \E i \in 0..(Len(s) - Len(sub)) : SubSeq(s, i + 1, i + Len(sub)) = sub

Digit ==
  <<"0","1","2","3","4","5","6","7","8","9">>

RECURSIVE IntToStr(_)
\* str(n) of a natural number, as an f-string formats len(...)
IntToStr(n) ==
  IF n < 10 THEN <<Digit[n + 1]>> ELSE IntToStr(n \div 10) \o <<Digit[(n % 10) + 1]>>

\* ------------------------------------------------------------------
\* File names and the upload directory
\* ------------------------------------------------------------------
\* A file name, kept as the parts the code tests: what it starts with, a
\* stem that tells names apart, and its extension.
Name(pre, stem, ext) ==
  [pre |-> pre, stem |-> stem, ext |-> ext]

\* None / the empty string: falsy in Python
NoName ==
  Name("", "", "")

\* the file names of the model: generated and edited images, and one file
\* that is not a PNG
Names ==
  { Name("image_", "a", ".png"), Name("image_", "b", ".png"),
    Name("edited_", "a", ".png"), Name("edited_", "b", ".png"),
    Name("image_", "a", ".jpg") }

\* the file names written while requests are served: a generated image, an
\* edited one and a file that is not a PNG
ServiceNames ==
  { Name("image_", "a", ".png"), Name("edited_", "a", ".png"),
    Name("image_", "a", ".jpg") }

\* f.startswith(prefix), for the prefixes the handlers pass
StartsWith(name, prefix) ==
  prefix = "" \/ name.pre = prefix

\* f.endswith(".png")
EndsWithPng(name) ==
  name.ext = ".png"

\* the names in a sequence of directory entries
NamesOf(dir) ==
  { dir[i].name : i \in 1..Len(dir) }

\* the directory entry of a name that exists
Entry(dir, name) ==
  dir[CHOOSE i \in 1..Len(dir) : dir[i].name = name]

\* os.path.getmtime
MTime(dir, name) ==
  Entry(dir, name).mtime

\* open(path, "wb").write(...): an existing file is rewritten in place, a new
\* one appears at position pos of the directory's (arbitrary) listing order
WriteFile(dir, name, now, pos) ==
  IF name \in NamesOf(dir)
  THEN [i \in 1..Len(dir) |->
          IF dir[i].name = name THEN [name |-> name, mtime |-> now] ELSE dir[i]]
  ELSE SubSeq(dir, 1, pos - 1) \o <<[name |-> name, mtime |-> now]>>
         \o SubSeq(dir, pos, Len(dir))

RECURSIVE InsertDesc(_, _)
\* one step of the stable sort with reverse=True: e goes after every entry
\* that is at least as recent
InsertDesc(sorted, e) ==
  IF sorted = <<>> THEN <<e>>
  ELSE IF Head(sorted).mtime >= e.mtime
       THEN <<Head(sorted)>> \o InsertDesc(Tail(sorted), e)
       ELSE <<e>> \o sorted

RECURSIVE SortByMTimeDesc(_)
\* files.sort(key=getmtime, reverse=True)
SortByMTimeDesc(entries) ==
  IF entries = <<>> THEN <<>>
  ELSE InsertDesc(SortByMTimeDesc(SubSeq(entries, 1, Len(entries) - 1)),
                  entries[Len(entries)])
\* a variant that forgets the slice
Take_Whole(s, n) ==
  s

\* s[:n]
Take(s, n) ==
  SubSeq(s, 1, IF Len(s) < n THEN Len(s) ELSE n)

\* a variant that sorts without reverse=True
list_images_OldestFirst(dir, prefix, limit) ==
  LET files  == SelectSeq(dir, LAMBDA f : EndsWithPng(f.name) /\ StartsWith(f.name, prefix))
      sorted == SortByMTimeDesc(files)
  IN  Take([i \in 1..Len(sorted) |-> sorted[Len(sorted) + 1 - i].name], limit)

\* list_images(prefix, limit)
list_images(dir, prefix, limit) ==
  LET files  == SelectSeq(dir, LAMBDA f : EndsWithPng(f.name) /\ StartsWith(f.name, prefix))
      sorted == SortByMTimeDesc(files)
  IN  Take([i \in 1..Len(sorted) |-> sorted[i].name], limit)

\* a variant whose except clause returns what a listing without the error
\* would have returned
list_images_try_Unaffected(dir, prefix, limit, raises) ==
  list_images(dir, prefix, limit)

\* list_images with its try: when os.listdir or os.path.getmtime raises, the
\* except clause prints the error and returns []
list_images_try(dir, prefix, limit, raises) ==
  IF raises THEN <<>> ELSE list_images(dir, prefix, limit)

\* ------------------------------------------------------------------
\* Session memory (src/app/session/memory.py)
\* ------------------------------------------------------------------
\* SessionMemory.__init__
NewMemory ==
  [last_generated |-> NoName, last_edited |-> NoName, recent_images |-> <<>>]

InSeq(x, s) ==
  \E i \in 1..Len(s) : s[i] = x

\* a variant that inserts without looking
Remember_Unchecked(recent, filename) ==
  Take(<<filename>> \o recent, RecentCapacity)

\* a variant that moves a name it already holds to the front
Remember_MoveToFront(recent, filename) ==
  Take(<<filename>> \o SelectSeq(recent, LAMBDA f : f # filename), RecentCapacity)

\* a variant that, when full, keeps what it has
Remember_KeepsOldest(recent, filename) ==
  IF InSeq(filename, recent) \/ Len(recent) >= RecentCapacity THEN recent
  ELSE <<filename>> \o recent

\* the insert-if-absent of both setters, with the cut to ten entries
Remember(recent, filename) ==
  IF InSeq(filename, recent) THEN recent
  ELSE Take(<<filename>> \o recent, RecentCapacity)
\* a variant that sets the pointer and leaves the recent list alone
set_last_generated_PointerOnly(mem, filename) ==
  [mem EXCEPT !.last_generated = filename]

set_last_generated(mem, filename) ==
  [mem EXCEPT !.last_generated = filename,
              !.recent_images = Remember(mem.recent_images, filename)]
\* a variant that writes the other pointer
set_last_edited_WrongPointer(mem, filename) ==
  [mem EXCEPT !.last_generated = filename,
              !.recent_images = Remember(mem.recent_images, filename)]

set_last_edited(mem, filename) ==
  [mem EXCEPT !.last_edited = filename,
              !.recent_images = Remember(mem.recent_images, filename)]

get_last_generated(mem) ==
  mem.last_generated

get_most_recent(mem) ==
  IF mem.recent_images # <<>> THEN mem.recent_images[1]
  ELSE IF mem.last_generated # NoName THEN mem.last_generated ELSE mem.last_edited

\* ------------------------------------------------------------------
\* Truth normalisation in the handlers (src/app/api/main.py)
\* ------------------------------------------------------------------
Response(status, success, message, filenames) ==
  [status |-> status, success |-> success, message |-> message, filenames |-> filenames]

NoResponse ==
  Response(0, FALSE, <<>>, <<>>)

\* raise HTTPException(status_code, detail)
HTTPError(status, detail) ==
  Response(status, FALSE, detail, <<>>)

\* the error indicators generate_images looks for
GenerateErrorIndicators(message) ==
  \/ Contains(ErrorColon, message)
  \/ Contains(ErrorLower, Lower(message))
  \/ Contains(FailedLower, Lower(message))

\* the error indicators edit_image looks for
EditErrorIndicators(message) ==
  \/ Contains(ErrorColon, message)
  \/ Contains(ErrorLower, Lower(message))
  \/ Contains(FailedLower, Lower(message))
  \/ Contains(CannotEditLower, Lower(message))
  \/ Contains(OnlyGenerateLower, Lower(message))
  \/ Contains(ICannot, message)

\* f"Successfully generated {len(filenames)} image(s)"
GeneratedText(filenames) ==
  SuccessfullyGeneratedPrefix \o IntToStr(Len(filenames)) \o ImagesSuffix

\* the detail of the 500 raised by generate_images when nothing was found
NoImagesDetail(all_files) ==
  IF all_files # <<>>
  THEN NoImagesGenerated \o FoundPrefix \o IntToStr(Len(all_files)) \o OtherImagesSuffix
  ELSE NoImagesGenerated \o NoPngFilesFound

\* a variant that replaces the agent's text whatever it says
GenerateMessage_AlwaysGeneric(filenames, message) ==
  GeneratedText(filenames)

\* the message of a successful generate response
GenerateMessage(filenames, message) ==
  IF message # <<>> /\ GenerateErrorIndicators(message) THEN GeneratedText(filenames)
  ELSE IF message = <<>> THEN GeneratedText(filenames)
  ELSE message

\* a variant that believes an agent reporting an error although images exist
GenerateOutcome_TrustsMessage(filenames, message, all_files) ==
  IF filenames = <<>> \/ GenerateErrorIndicators(message)
  THEN HTTPError(500, NoImagesDetail(all_files))
  ELSE Response(200, TRUE, GenerateMessage(filenames, message), Take(filenames, GenerateLimit))

\* a variant that passes the agent's text on when nothing was found
GenerateOutcome_SurfacesMessage(filenames, message, all_files) ==
  IF filenames = <<>>
  THEN HTTPError(500, IF message # <<>> THEN message ELSE NoImagesDetail(all_files))
  ELSE Response(200, TRUE, GenerateMessage(filenames, message), Take(filenames, GenerateLimit))

\* generate_images from the return of wait_for_images on; all_files is the
\* second listing, taken only when the first came back empty
GenerateOutcome(filenames, message, all_files) ==
  IF filenames = <<>> THEN HTTPError(500, NoImagesDetail(all_files))
  ELSE Response(200, TRUE, GenerateMessage(filenames, message), Take(filenames, GenerateLimit))

\* the message of a successful edit response
EditMessage(message) ==
  IF message # <<>> /\ EditErrorIndicators(message) THEN ImageEditedSuccessfully
  ELSE IF message = <<>> THEN ImageEditedSuccessfully
  ELSE message

\* a variant that believes an agent reporting success although no file exists
EditOutcome_TrustsMessage(edited_files, message) ==
  IF edited_files = <<>> /\ (message = <<>> \/ EditErrorIndicators(message))
  THEN HTTPError(500, EditedImageNotFound)
  ELSE Response(200, TRUE, EditMessage(message), Take(edited_files, 1))

\* edit_image from the return of wait_for_images on
EditOutcome(edited_files, message) ==
  IF edited_files = <<>> THEN HTTPError(500, EditedImageNotFound)
  ELSE Response(200, TRUE, EditMessage(message), <<edited_files[1]>>)

\* a variant that falls back on a default name
ImageToEdit_DefaultName(image_filename, mem) ==
  IF image_filename # NoName THEN image_filename
  ELSE IF get_last_generated(mem) # NoName THEN get_last_generated(mem)
  ELSE IF get_most_recent(mem) # NoName THEN get_most_recent(mem)
  ELSE Name("", "unknown", ".png")

\* a variant that prefers the image touched last
ImageToEdit_MostRecent(image_filename, mem) ==
  IF image_filename # NoName THEN image_filename
  ELSE IF get_most_recent(mem) # NoName THEN get_most_recent(mem)
  ELSE get_last_generated(mem)

\* edit_image_with_artifacts: the image_path it hands to edit_image_compute
ResolveImagePath(image_path, mem) ==
  IF image_path # NoName THEN image_path
  ELSE IF get_last_generated(mem) # NoName THEN get_last_generated(mem)
  ELSE get_most_recent(mem)

\* the image an edit request works on
ImageToEdit(image_filename, mem) ==
  IF image_filename # NoName THEN image_filename
  ELSE IF get_last_generated(mem) # NoName THEN get_last_generated(mem)
  ELSE get_most_recent(mem)

\* chat: does the user's request ask for images
HasGenerationIntent(text) ==
  \E kw \in {KwGenerate, KwCreate, KwMake, KwShowMe, KwImage, KwPicture, KwDress, KwOutfit} :
     Contains(kw, Lower(text))

\* chat: does the agent's answer report images
HasImageKeywords(message) ==
  \E kw \in {KwSuccessfullyGenerated, KwIveGenerated, KwGeneratedImages,
             KwSuccessfullyEdited, KwIveEdited, KwEditedImage} :
     Contains(kw, Lower(message))
\* a variant that attributes every image listed to the request
RecentImages_Unfiltered(dir, request_start_time) ==
  Take(list_images(dir, "", ChatListLimit), ChatLimit)

\* chat: the images it attributes to the request
RecentImages(dir, request_start_time) ==
  LET all_images == list_images(dir, "", ChatListLimit)
      fresh      == SelectSeq(all_images,
                      LAMBDA img : MTime(dir, img) >= request_start_time - ChatSlack)
      entries    == [i \in 1..Len(fresh) |-> Entry(dir, fresh[i])]
      sorted     == SortByMTimeDesc(entries)
  IN  Take([i \in 1..Len(sorted) |-> sorted[i].name], ChatLimit)

\* a variant that files every image found under last_generated
ChatRemember_AlwaysGenerated(mem, recent_images) ==
  IF recent_images = <<>> THEN mem
  ELSE set_last_generated(mem, recent_images[1])

\* chat: the memory update for the images found
ChatRemember(mem, recent_images) ==
  IF recent_images = <<>> THEN mem
  ELSE IF StartsWith(recent_images[1], "edited_") THEN set_last_edited(mem, recent_images[1])
  ELSE set_last_generated(mem, recent_images[1])

\* the chat response
ChatOutcome(message, recent_images) ==
  Response(200, TRUE, IF message # <<>> THEN message ELSE ResponseReceived, recent_images)

\* a variant that waits for a second image
KeepWaiting_ForTwo(filenames, waited, max_wait_time) ==
  Len(filenames) < 2 /\ waited < max_wait_time

\* a variant that sleeps once more when the bound is reached
KeepWaiting_Inclusive(filenames, waited, max_wait_time) ==
  filenames = <<>> /\ waited <= max_wait_time

\* a variant that always waits the bound out
KeepWaiting_UntilTimeout(filenames, waited, max_wait_time) ==
  waited < max_wait_time

\* the loop condition of wait_for_images
KeepWaiting(filenames, waited, max_wait_time) ==
  filenames = <<>> /\ waited < max_wait_time

\* ------------------------------------------------------------------
\* State
\* ------------------------------------------------------------------
VARIABLES
  store,    \* the upload directory: entries [name, mtime] in listing order
  memory,   \* the process-wide SessionMemory
  clock,    \* wall-clock time in seconds
  writes,   \* files written so far
  served,   \* requests started so far
  req,      \* the request being served and where its handler stands
  resp,     \* the response of the last request that ended
  prev,     \* the last direct call of wait_for_images that returned
  log,      \* the direct calls of the session memory's setters so far
  tool,     \* the tool invocation in progress and where it stands
  pic,      \* the grid image being split and what the split has saved
  tasks     \* the memory updates of the requests in flight and those that ran

vars ==
  <<store, memory, clock, writes, served, req, resp, prev, log, tool, pic, tasks>>

\* what the delegation layer may say in its final event
Messages ==
  {MsgEmpty, MsgErrorCannotEdit, MsgDone, MsgICannot, MsgWeCannot,
   MsgOnlyGenerate, MsgFailed, MsgClaimsSuccess}

\* what it may say at the end of a chat: nothing, a text without image
\* wording and one that reports images
ChatMessages ==
  {MsgEmpty, MsgDone, MsgClaimsSuccess}

\* what a user may type into /api/chat
ChatTexts ==
  {AskHello, AskMakeDress}

IdleRequest ==
  [kind |-> "none", pc |-> "idle", id |-> 0, text |-> <<>>, message |-> <<>>,
   prefix |-> "", limit |-> 0, max_wait_time |-> 0, poll_interval |-> 0,
   waited |-> 0, sleeps |-> 0, lists |-> 0, filenames |-> <<>>,
   start |-> 0, mine |-> {}, ver |-> 0, seen |-> 0, source |-> NoName, raised |-> 0]

\* no setter called directly yet
NoLog ==
  [order |-> <<>>, calls |-> 0, setter |-> "none", filename |-> NoName,
   generated |-> NoName]

\* no tool invoked yet
NoTool ==
  [kind |-> "none", pc |-> "idle", id |-> 0, ctx |-> FALSE,
   via |-> "none", asked |-> NoName, image_path |-> NoName, composite |-> NoName,
   pack |-> 0, calls |-> 0, raised |-> 0, quads |-> 0, written |-> {}, images |-> <<>>,
   ok |-> FALSE, text |-> ""]

\* no grid image has been opened
NoPicture ==
  [pc |-> "none", filename |-> NoName,
   grid_image |-> [width |-> 0, height |-> 0, pixels |-> <<>>],
   split_data |-> <<>>]

\* no request is in flight
NoTasks ==
  [of |-> <<>>, ran |-> <<>>, start |-> NewMemory]

NoPrev ==
  [valid |-> FALSE, prefix |-> "", limit |-> 0, max_wait_time |-> 0, poll_interval |-> 0,
   ver |-> 0, filenames |-> <<>>]

Init ==
  /\ store = <<>>
  /\ memory = NewMemory
  /\ clock = 0
  /\ writes = 0
  /\ served = 0
  /\ req = IdleRequest
  /\ resp = NoResponse
  /\ prev = NoPrev
  /\ log = NoLog
  /\ tool = NoTool
  /\ pic = NoPicture
  /\ tasks = NoTasks

\* a request starts when the previous one has ended, within the model's horizon
CanStart ==
  req.pc \in {"idle", "done"} /\ served < MaxRequests /\ clock <= Horizon

NewRequest(kind) ==
  [IdleRequest EXCEPT !.kind = kind, !.pc = "run", !.id = served + 1, !.start = clock]

\* ------------------------------------------------------------------
\* The environment: uploads and the delegation layer
\* ------------------------------------------------------------------
\* POST /api/upload, dt seconds on
upload_image(name, dt, pos) ==
  /\ pos \in 1..(IF name \in NamesOf(store) THEN 1 ELSE Len(store) + 1)
  /\ store' = WriteFile(store, name, clock + dt, pos)
  /\ clock' = clock + dt
  /\ memory' = set_last_generated(memory, name)
  /\ writes' = writes + 1
  /\ UNCHANGED <<served, req, resp, prev, log, tool, pic, tasks>>
\* a variant where the delegated call goes on writing after its event stream
\* has ended
AgentWrite_Detached(name, dt, pos) ==
  /\ req.pc \in {"run", "wait", "sleep"}
  /\ writes < MaxWrites
  /\ pos \in 1..(IF name \in NamesOf(store) THEN 1 ELSE Len(store) + 1)
  /\ store' = WriteFile(store, name, clock + dt, pos)
  /\ clock' = clock + dt
  /\ writes' = writes + 1
  /\ req' = [req EXCEPT !.mine = @ \cup {name}]
  /\ UNCHANGED <<memory, served, resp, prev, log, tool, pic, tasks>>

\* the delegated call writes a file into the upload directory, dt seconds on
AgentWrite(name, dt, pos) ==
  /\ req.pc = "run"
  /\ writes < MaxWrites
  /\ pos \in 1..(IF name \in NamesOf(store) THEN 1 ELSE Len(store) + 1)
  /\ store' = WriteFile(store, name, clock + dt, pos)
  /\ clock' = clock + dt
  /\ writes' = writes + 1
  /\ req' = [req EXCEPT !.mine = @ \cup {name}]
  /\ UNCHANGED <<memory, served, resp, prev, log, tool, pic, tasks>>

\* the root agent calls save_image_artifact_tool on a file of the upload
\* directory: the artifact is saved and the memory updated as asked
AgentSave(filename, update_memory) ==
  /\ req.pc = "run"
  /\ filename \in NamesOf(store)
  /\ memory' = CASE update_memory = "generated" -> set_last_generated(memory, filename)
                  [] update_memory = "edited"    -> set_last_edited(memory, filename)
                  [] OTHER                       -> memory
  /\ UNCHANGED <<store, clock, writes, served, req, resp, prev, log, tool, pic, tasks>>

\* runner.run_async raises: the handler's except clause answers 500
AgentRaise ==
  /\ req.pc = "run"
  /\ req' = [req EXCEPT !.pc = "done"]
  /\ resp' = HTTPError(500,
               (CASE req.kind = "generate" -> ErrorGeneratingImages
                  [] req.kind = "edit"     -> ErrorEditingImage
                  [] req.kind = "chat"     -> ErrorProcessingMessage) \o RunnerCrashed)
  /\ UNCHANGED <<store, memory, clock, writes, served, prev, log, tool, pic, tasks>>

\* ------------------------------------------------------------------
\* wait_for_images
\* ------------------------------------------------------------------
\* where the handler stands once a listing is in: asleep in the loop body
\* (await asyncio.sleep) or back from wait_for_images
AfterListing(filenames, waited, max_wait_time) ==
  IF KeepWaiting(filenames, waited, max_wait_time) THEN "sleep" ELSE "returned"

\* waited = 0, the first listing and the first test of the loop condition
WaitFirstList ==
  /\ req.pc = "wait"
  /\ LET filenames == list_images(store, req.prefix, req.limit)
         pc        == AfterListing(filenames, 0, req.max_wait_time)
     IN  req' = [req EXCEPT !.pc = pc, !.waited = 0, !.lists = 1, !.ver = writes, !.seen = writes,
                            !.sleeps = IF pc = "sleep" THEN 1 ELSE 0,
                            !.filenames = filenames]
  /\ UNCHANGED <<store, memory, clock, writes, served, resp, prev, log, tool, pic, tasks>>

\* the sleep is over: waited += poll_interval, the next listing and the next
\* test of the loop condition
WaitWake ==
  /\ req.pc = "sleep"
  /\ clock' = clock + req.poll_interval
  /\ LET filenames == list_images(store, req.prefix, req.limit)
         waited    == req.waited + req.poll_interval
         pc        == AfterListing(filenames, waited, req.max_wait_time)
     IN  req' = [req EXCEPT !.pc = pc, !.waited = waited, !.lists = @ + 1, !.seen = writes,
                            !.sleeps = IF pc = "sleep" THEN @ + 1 ELSE @,
                            !.filenames = filenames]
  /\ UNCHANGED <<store, memory, writes, served, resp, prev, log, tool, pic, tasks>>

\* wait_for_images has returned filenames
Returns ==
  req.pc = "returned"

\* ------------------------------------------------------------------
\* POST /api/generate
\* ------------------------------------------------------------------
GenerateStart ==
  /\ CanStart
  /\ served' = served + 1
  /\ req' = NewRequest("generate")
  /\ resp' = NoResponse
  /\ UNCHANGED <<store, memory, clock, writes, prev, log, tool, pic, tasks>>

\* the event stream ends with final text m; wait_for_images(prefix="", limit=4)
GenerateAgentDone(m) ==
  /\ req.kind = "generate" /\ req.pc = "run"
  /\ req' = [req EXCEPT !.pc = "wait", !.message = m, !.prefix = "", !.limit = GenerateLimit,
                        !.max_wait_time = DefaultMaxWaitTime,
                        !.poll_interval = DefaultPollInterval]
  /\ UNCHANGED <<store, memory, clock, writes, served, resp, prev, log, tool, pic, tasks>>

\* wait_for_images returned: the verdict
GenerateFinish ==
  /\ req.kind = "generate" /\ Returns
  /\ resp' = GenerateOutcome(req.filenames, req.message, list_images(store, "", DefaultLimit))
  /\ memory' = IF req.filenames = <<>> THEN memory
               ELSE set_last_generated(memory, req.filenames[1])
  /\ req' = [req EXCEPT !.pc = "done"]
  /\ UNCHANGED <<store, clock, writes, served, prev, log, tool, pic, tasks>>

\* ------------------------------------------------------------------
\* POST /api/edit
\* ------------------------------------------------------------------
EditStart(image_filename) ==
  /\ CanStart
  /\ served' = served + 1
  /\ IF ImageToEdit(image_filename, memory) = NoName
     THEN /\ req' = [NewRequest("edit") EXCEPT !.pc = "done", !.source = image_filename]
          /\ resp' = HTTPError(400, NoImageAvailable)
     ELSE /\ req' = [NewRequest("edit") EXCEPT !.source = image_filename]
          /\ resp' = NoResponse
  /\ UNCHANGED <<store, memory, clock, writes, prev, log, tool, pic, tasks>>

\* the event stream ends with final text m; wait_for_images(prefix="edited_", limit=1)
EditAgentDone(m) ==
  /\ req.kind = "edit" /\ req.pc = "run"
  /\ req' = [req EXCEPT !.pc = "wait", !.message = m, !.prefix = "edited_", !.limit = EditLimit,
                        !.max_wait_time = DefaultMaxWaitTime,
                        !.poll_interval = DefaultPollInterval]
  /\ UNCHANGED <<store, memory, clock, writes, served, resp, prev, log, tool, pic, tasks>>

\* wait_for_images returned: the verdict
EditFinish ==
  /\ req.kind = "edit" /\ Returns
  /\ resp' = EditOutcome(req.filenames, req.message)
  /\ memory' = IF req.filenames = <<>> THEN memory
               ELSE set_last_edited(memory, req.filenames[1])
  /\ req' = [req EXCEPT !.pc = "done"]
  /\ UNCHANGED <<store, clock, writes, served, prev, log, tool, pic, tasks>>

\* ------------------------------------------------------------------
\* POST /api/chat
\* ------------------------------------------------------------------
ChatStart(text) ==
  /\ CanStart
  /\ served' = served + 1
  /\ req' = [NewRequest("chat") EXCEPT !.text = text]
  /\ resp' = NoResponse
  /\ UNCHANGED <<store, memory, clock, writes, prev, log, tool, pic, tasks>>

\* the event stream ends with final text m; without image intent or keywords
\* the response goes out at once, otherwise after asyncio.sleep(2)
ChatAgentDone(m) ==
  /\ req.kind = "chat" /\ req.pc = "run"
  /\ IF HasGenerationIntent(req.text) \/ HasImageKeywords(m)
     THEN /\ req' = [req EXCEPT !.pc = "chatsleep", !.message = m]
          /\ resp' = resp
     ELSE /\ req' = [req EXCEPT !.pc = "done", !.message = m]
          /\ resp' = ChatOutcome(m, <<>>)
  /\ UNCHANGED <<store, memory, clock, writes, served, prev, log, tool, pic, tasks>>

\* after the sleep: list, filter by modification time, remember, respond
ChatFinish ==
  /\ req.kind = "chat" /\ req.pc = "chatsleep"
  /\ clock' = clock + ChatSleep
  /\ LET recent_images == RecentImages(store, req.start)
     IN  /\ memory' = ChatRemember(memory, recent_images)
         /\ resp' = ChatOutcome(req.message, recent_images)
         /\ req' = [req EXCEPT !.pc = "done", !.filenames = recent_images]
  /\ UNCHANGED <<store, writes, served, prev, log, tool, pic, tasks>>

\* ------------------------------------------------------------------
\* The service
\* ------------------------------------------------------------------
Next ==
  \/ \E name \in ServiceNames, pos \in 1..(MaxWrites + 1) :
       writes < MaxWrites /\ clock <= Horizon /\ upload_image(name, 0, pos)
  \/ \E name \in ServiceNames, dt \in {0, 1}, pos \in 1..(MaxWrites + 1) :
       AgentWrite(name, dt, pos)
  \/ \E filename \in ServiceNames, update_memory \in {"generated", "edited", "none"} :
       AgentSave(filename, update_memory)
  \/ AgentRaise
  \/ WaitFirstList
  \/ WaitWake
  \/ GenerateStart
  \/ \E m \in Messages : GenerateAgentDone(m)
  \/ GenerateFinish
  \/ \E f \in {NoName, Name("image_", "a", ".png")} : EditStart(f)
  \/ \E m \in Messages : EditAgentDone(m)
  \/ EditFinish
  \/ \E text \in ChatTexts : ChatStart(text)
  \/ \E m \in ChatMessages : ChatAgentDone(m)
  \/ ChatFinish

Spec ==
  Init /\ [][Next]_vars

\* ------------------------------------------------------------------
\* wait_for_images called directly and repeatedly, with arguments of the
\* caller's choice, while files are uploaded
\* ------------------------------------------------------------------
Prefixes ==
  {"", "edited_"}

Limits ==
  {1, 2}

MaxWaitTimes ==
  {0, 3}

PollIntervals ==
  {2}

\* a call; a repeated call passes the arguments of the call before it
PollCall(prefix, limit, max_wait_time, poll_interval) ==
  /\ req.pc \in {"idle", "done"} /\ served < MaxCalls
  /\ prev.valid => /\ prefix = prev.prefix /\ limit = prev.limit
                   /\ max_wait_time = prev.max_wait_time
                   /\ poll_interval = prev.poll_interval
  /\ served' = served + 1
  /\ req' = [NewRequest("poll") EXCEPT !.pc = "wait", !.prefix = prefix, !.limit = limit,
                                       !.max_wait_time = max_wait_time,
                                       !.poll_interval = poll_interval]
  /\ UNCHANGED <<store, memory, clock, writes, resp, prev, log, tool, pic, tasks>>

\* the caller has the returned list
PollReturn ==
  /\ req.kind = "poll" /\ Returns
  /\ req' = [req EXCEPT !.pc = "done"]
  /\ prev' = [valid |-> TRUE, prefix |-> req.prefix, limit |-> req.limit,
              max_wait_time |-> req.max_wait_time, poll_interval |-> req.poll_interval,
              ver |-> req.seen, filenames |-> req.filenames]
  /\ UNCHANGED <<store, memory, clock, writes, served, resp, log, tool, pic, tasks>>

NextPoller ==
  \/ \E name \in Names, dt \in {0, 1}, pos \in 1..(MaxEnvWrites + 1) :
       writes < MaxEnvWrites /\ clock <= Horizon /\ upload_image(name, dt, pos)
  \/ \E prefix \in Prefixes, limit \in Limits, w \in MaxWaitTimes, p \in PollIntervals :
       PollCall(prefix, limit, w, p)
  \/ WaitFirstList
  \/ WaitWake
  \/ PollReturn

SpecPoller ==
  Init /\ [][NextPoller]_vars

\* the event loop runs a coroutine that is ready: the first listing follows
\* the call, and asyncio.sleep(poll_interval) comes back when its timer fires
NextPollerFair ==
  \/ \E name \in Names, dt \in {0, 1}, pos \in 1..(MaxFairWrites + 1) :
       writes < MaxFairWrites /\ clock <= Horizon /\ upload_image(name, dt, pos)
  \/ \E prefix \in Prefixes, limit \in Limits, w \in MaxWaitTimes, p \in PollIntervals :
       PollCall(prefix, limit, w, p)
  \/ WaitFirstList
  \/ WaitWake
  \/ PollReturn

SpecPollerFair ==
  Init /\ [][NextPollerFair]_vars /\ WF_vars(WaitFirstList) /\ WF_vars(WaitWake)


\* ------------------------------------------------------------------
\* The session memory on its own: any sequence of calls of its two setters.
\* The setters only compare names, so a name recorded for the first time is
\* taken to be the next of a fixed row of names; log.order keeps the names in
\* the order of their first recording.
\* ------------------------------------------------------------------
Stems ==
  <<"a", "b", "c", "d", "e", "f", "g", "h", "i", "j", "k", "l", "m", "n">>

\* the k-th name of the row
Fresh(k) ==
  Name("image_", Stems[k], ".png")

\* a call records the next new name or one recorded before
Recordable ==
  { Fresh(k) : k \in 1..(IF Len(log.order) < MaxNames THEN Len(log.order) + 1
                         ELSE Len(log.order)) }

Logged(setter, filename) ==
  [order    |-> IF InSeq(filename, log.order) THEN log.order
                ELSE Append(log.order, filename),
   calls    |-> log.calls + 1,
   setter   |-> setter,
   filename |-> filename,
   generated |-> IF setter = "set_last_generated" THEN filename ELSE log.generated]

\* get_memory().set_last_generated(filename)
SetLastGenerated(filename) ==
  /\ log.calls < MaxRecords
  /\ memory' = set_last_generated(memory, filename)
  /\ log' = Logged("set_last_generated", filename)
  /\ UNCHANGED <<store, clock, writes, served, req, resp, prev, tool, pic, tasks>>

\* get_memory().set_last_edited(filename)
SetLastEdited(filename) ==
  /\ log.calls < MaxRecords
  /\ memory' = set_last_edited(memory, filename)
  /\ log' = Logged("set_last_edited", filename)
  /\ UNCHANGED <<store, clock, writes, served, req, resp, prev, tool, pic, tasks>>

NextLedger ==
  \/ \E filename \in Recordable : SetLastGenerated(filename)
  \/ \E filename \in Recordable : SetLastEdited(filename)

SpecLedger ==
  Init /\ [][NextLedger]_vars


\* ------------------------------------------------------------------
\* The image tools (src/app/tools): one invocation at a time of
\* generate_image_with_artifacts or edit_image_with_artifacts, each a wrapper
\* around its compute-only tool and the external image model
\* ------------------------------------------------------------------
\* what one call of image_model.generate_content may do: raise, answer with
\* an image part, answer without one
ModelOutcomes ==
  {"raises", "image", "nothing"}

\* the texts the tools return, up to the part that names a file or a cause
NoImagePathProvided ==
  "Error: No image_path provided and no recent image found in memory. Please specify an image to edit."

NoImagePath ==
  "No image_path provided"

ImageFileNotFound ==
  "Image file not found: "

ErrorLoadingImage ==
  "Error loading image: "

ErrorEditingImageTool ==
  "Error editing image: "

FailedToExtract ==
  "Failed to extract edited image from API response."

CouldNotSaveArtifact ==
  "Error: Could not save artifact: "

SuccessfullyEdited ==
  "Successfully edited image. Saved as "

FailedToGenerateAny ==
  "Failed to generate any images. "

SkippedNoToolContext ==
  " (artifact saving skipped - no tool_context)"

\* f"Successfully generated {len(images)} images. Artifacts saved: {saved_count}"
GeneratedAndSaved(images, saved_count) ==
  "Successfully generated " \o ToString(Len(images)) \o " images. Artifacts saved: "
    \o ToString(saved_count)

\* f"Successfully generated {len(all_images)} images", the compute tool's message
GeneratedCount(images) ==
  "Successfully generated " \o ToString(Len(images)) \o " images"

\* a file name as text
PathText(name) ==
  name.pre \o name.stem \o name.ext

\* paths that exist on disk outside the upload directory
Elsewhere ==
  { Name("/tmp/", "photo", ".jpg") }

\* what a caller may name as the image to edit
ImagePaths ==
  { NoName, Name("image_", "a", ".png"), Name("/tmp/", "photo", ".jpg") }

\* a variant that takes every path to exist
Resolves_Always(dir, image_path) ==
  TRUE

\* os.path.exists(os.path.join(UPLOAD_DIR, image_path)) or, failing that,
\* os.path.exists(image_path)
Resolves(dir, image_path) ==
  image_path \in NamesOf(dir) \/ image_path \in Elsewhere

\* os.path.basename(filepath)
Basename(path) ==
  IF path \in Elsewhere THEN Name("", path.stem, path.ext) ELSE path

\* f"edited_{ts}_{name}{ext}", ts being the time to the second
EditedName(original, now) ==
  Name("edited_", ToString(now) \o "_" \o original.pre \o original.stem, original.ext)

\* f"image_{ts}_{i+1}.png"; ts ends in a fresh uuid prefix, which the number
\* of the invocation stands for, and i counts the grids from 1
CompositeName(id, i) ==
  Name("image_", "u" \o ToString(id) \o "_" \o ToString(i), ".png")

\* f"{base_name}_{i}{ext}"
QuadrantName(composite, i) ==
  Name(composite.pre, composite.stem \o "_" \o ToString(i), composite.ext)

\* os.remove(filepath)
RemoveFile(dir, name) ==
  SelectSeq(dir, LAMBDA f : f.name # name)


\* the least element of a non-empty set of numbers
Least(S) ==
  CHOOSE i \in S : \A j \in S : i <= j

\* an invocation starts when the one before it has returned
CanInvoke ==
  tool.pc \in {"idle", "done"} /\ served < MaxInvocations

NewInvocation(kind, via, ctx) ==
  [NoTool EXCEPT !.kind = kind, !.via = via, !.ctx = ctx, !.id = served + 1]

\* the invocation returns text to the agent
Returned(t, ok, text) ==
  [t EXCEPT !.pc = "done", !.ok = ok, !.text = text]

\* a variant that asks the model again until the third call
FallsBack_Twice(calls) ==
  calls < 3

\* edit_image_compute after a call of generate_content raised: the first
\* call, made with generation_config, is followed by one without it
FallsBack(calls) ==
  calls < 2

\* a variant that generates as many grids as asked
ForcedPackSize_AsGiven(pack_size) ==
  pack_size

\* generate_image_compute: if pack_size != 1: pack_size = 1
ForcedPackSize(pack_size) ==
  IF pack_size # 1 THEN 1 ELSE pack_size

\* the text of a failure: the compute tool's error, which the wrapper
\* prefixes
ToolError(via, cause) ==
  (IF via = "wrapper" THEN "Error: " ELSE "") \o cause

\* edit_image_with_artifacts(edit_prompt, image_path, tool_context), or
\* edit_image_compute(edit_prompt, image_path) called by the editing agent,
\* up to the model call: the image is looked up and opened
EditToolCall(via, asked, ctx, opens) ==
  /\ CanInvoke
  /\ served' = served + 1
  /\ LET image_path == IF via = "wrapper" THEN ResolveImagePath(asked, memory) ELSE asked
         t == [NewInvocation("edit", via, ctx) EXCEPT !.asked = asked, !.image_path = image_path]
     IN  tool' = IF image_path = NoName
                 THEN Returned(t, FALSE, IF via = "wrapper" THEN NoImagePathProvided
                                         ELSE NoImagePath)
                 ELSE IF ~Resolves(store, image_path)
                 THEN Returned(t, FALSE,
                               ToolError(via, ImageFileNotFound \o PathText(image_path)))
                 ELSE IF ~opens THEN Returned(t, FALSE, ToolError(via, ErrorLoadingImage))
                 ELSE [t EXCEPT !.pc = "model"]
  /\ UNCHANGED <<store, memory, clock, writes, req, resp, prev, log, pic, tasks>>

\* image_model.generate_content answers or raises, dt seconds on; with an
\* image in the answer the edited file is written and, in the wrapper, saved
\* as an artifact and recorded
EditModelCall(outcome, dt, pos, saves) ==
  /\ tool.kind = "edit" /\ tool.pc = "model"
  /\ clock' = clock + dt
  /\ LET t        == [tool EXCEPT !.calls = @ + 1,
                                  !.raised = IF outcome = "raises" THEN @ + 1 ELSE @]
         filename == EditedName(Basename(tool.image_path), clock')
     IN  CASE outcome = "raises" /\ FallsBack(t.calls) ->
                /\ tool' = t
                /\ UNCHANGED <<store, memory>>
           [] outcome = "raises" /\ ~FallsBack(t.calls) ->
                /\ tool' = Returned(t, FALSE, ToolError(tool.via, ErrorEditingImageTool))
                /\ UNCHANGED <<store, memory>>
           [] outcome = "nothing" ->
                /\ tool' = Returned(t, FALSE, ToolError(tool.via, FailedToExtract))
                /\ UNCHANGED <<store, memory>>
           [] outcome = "image" ->
                /\ pos \in {1, Len(store) + 1}
                /\ store' = WriteFile(store, filename, clock', pos)
                /\ LET w == [t EXCEPT !.written = @ \cup {filename}, !.images = <<filename>>]
                   IN  IF tool.via = "wrapper" /\ tool.ctx /\ ~saves
                       THEN /\ tool' = Returned(w, FALSE, CouldNotSaveArtifact)
                            /\ memory' = memory
                       ELSE IF tool.via = "wrapper" /\ tool.ctx
                       THEN /\ tool' = Returned(w, TRUE, SuccessfullyEdited \o PathText(filename))
                            /\ memory' = set_last_edited(memory, filename)
                       ELSE /\ tool' = Returned(w, TRUE,
                                         SuccessfullyEdited \o PathText(filename)
                                           \o (IF tool.via = "wrapper" THEN SkippedNoToolContext
                                               ELSE ""))
                            /\ memory' = memory
  /\ UNCHANGED <<writes, served, req, resp, prev, log, pic, tasks>>


\* generate_image_with_artifacts(prompt, pack_size, tool_context), or
\* generate_image_compute(prompt, pack_size) called by the generation agent,
\* up to the model call
GenerateToolCall(via, ctx, pack_size) ==
  /\ CanInvoke
  /\ served' = served + 1
  /\ tool' = [NewInvocation("generate", via, ctx) EXCEPT
                !.pc = "model", !.pack = ForcedPackSize(pack_size)]
  /\ UNCHANGED <<store, memory, clock, writes, req, resp, prev, log, pic, tasks>>

\* generate_image_compute once a pass of its loop is over: the next pass, or
\* the end with or without images
AfterPass(t) ==
  IF t.calls < t.pack THEN [t EXCEPT !.pc = "model"]
  ELSE IF t.images = <<>> THEN Returned(t, FALSE, ToolError(t.via, FailedToGenerateAny))
  ELSE [t EXCEPT !.pc = "save"]

\* image_model.generate_content(prompt) answers or raises, dt seconds on; an
\* image in the answer is written to the upload directory as the grid
GenerateModelCall(outcome, dt, pos) ==
  /\ tool.kind = "generate" /\ tool.pc = "model"
  /\ clock' = clock + dt
  /\ LET t    == [tool EXCEPT !.calls = @ + 1,
                              !.raised = IF outcome = "raises" THEN @ + 1 ELSE @]
         name == CompositeName(tool.id, t.calls)
     IN  IF outcome = "image"
         THEN /\ pos \in {1, Len(store) + 1}
              /\ store' = WriteFile(store, name, clock', pos)
              /\ tool' = [t EXCEPT !.pc = "split", !.composite = name, !.quads = 0,
                                   !.written = @ \cup {name}]
         ELSE /\ store' = store
              /\ tool' = AfterPass(t)
  /\ UNCHANGED <<memory, writes, served, req, resp, prev, log, pic, tasks>>

\* split_grid_image: the next quadrant is cropped, trimmed and saved
SplitQuadrant(pos) ==
  /\ tool.kind = "generate" /\ tool.pc = "split" /\ tool.quads < 4
  /\ pos \in {1, Len(store) + 1}
  /\ LET name == QuadrantName(tool.composite, tool.quads + 1)
     IN  /\ store' = WriteFile(store, name, clock, pos)
         /\ tool' = [tool EXCEPT !.quads = @ + 1, !.written = @ \cup {name}]
  /\ UNCHANGED <<memory, clock, writes, served, req, resp, prev, log, pic, tasks>>

\* a variant that removes what the failed split has written
SplitFails_CleansUp(reads) ==
  /\ tool.kind = "generate" /\ tool.pc = "split" /\ tool.quads < 4
  /\ store' = SelectSeq(store, LAMBDA f : f.name \notin tool.written)
  /\ tool' = AfterPass([tool EXCEPT !.images =
                          IF reads THEN Append(@, tool.composite) ELSE @])
  /\ UNCHANGED <<memory, clock, writes, served, req, resp, prev, log, pic, tasks>>

\* a variant that returns the quadrants saved before the split failed
SplitFails_KeepsQuadrants(reads) ==
  /\ tool.kind = "generate" /\ tool.pc = "split" /\ tool.quads < 4
  /\ tool' = AfterPass([tool EXCEPT !.images =
                          IF tool.quads > 0
                          THEN @ \o [i \in 1..tool.quads |-> QuadrantName(tool.composite, i)]
                          ELSE IF reads THEN Append(@, tool.composite) ELSE @])
  /\ UNCHANGED <<store, memory, clock, writes, served, req, resp, prev, log, pic, tasks>>

\* split_grid_image raises while opening the grid or making a quadrant and
\* returns failure; generate_image_compute then reads the grid itself, which
\* joins the images unless that read raises too
SplitFails(reads) ==
  /\ tool.kind = "generate" /\ tool.pc = "split" /\ tool.quads < 4
  /\ tool' = AfterPass([tool EXCEPT !.images =
                          IF reads THEN Append(@, tool.composite) ELSE @])
  /\ UNCHANGED <<store, memory, clock, writes, served, req, resp, prev, log, pic, tasks>>

\* a variant that removes the grid once the third quadrant is saved
SplitRemove_Early(removed) ==
  /\ tool.kind = "generate" /\ tool.pc = "split" /\ tool.quads >= 3
  /\ store' = IF removed THEN RemoveFile(store, tool.composite) ELSE store
  /\ tool' = AfterPass([tool EXCEPT !.images =
                          @ \o [i \in 1..4 |-> QuadrantName(tool.composite, i)]])
  /\ UNCHANGED <<memory, clock, writes, served, req, resp, prev, log, pic, tasks>>

\* split_grid_image after the fourth quadrant: os.remove(filepath), whose
\* failure is only printed, and the four quadrants join the images
SplitRemove(removed) ==
  /\ tool.kind = "generate" /\ tool.pc = "split" /\ tool.quads = 4
  /\ store' = IF removed THEN RemoveFile(store, tool.composite) ELSE store
  /\ tool' = AfterPass([tool EXCEPT !.images =
                          @ \o [i \in 1..4 |-> QuadrantName(tool.composite, i)]])
  /\ UNCHANGED <<memory, clock, writes, served, req, resp, prev, log, pic, tasks>>

\* the images are returned; the wrapper first saves each as an artifact,
\* those in saves without an exception, and records the first one saved
GenerateReturn(saves) ==
  /\ tool.kind = "generate" /\ tool.pc = "save"
  /\ IF tool.via = "wrapper"
     THEN LET saved == IF tool.ctx
                       THEN { i \in saves \cap 1..Len(tool.images) :
                                tool.images[i] \in NamesOf(store) }
                       ELSE {}
          IN  /\ tool.ctx \/ saves = {}
              /\ Len(tool.images) = 1 => saves # 2..4
              /\ memory' = IF saved = {} THEN memory
                           ELSE set_last_generated(memory, tool.images[Least(saved)])
              /\ tool' = Returned(tool, TRUE, GeneratedAndSaved(tool.images, Cardinality(saved)))
     ELSE /\ saves = {}
          /\ memory' = memory
          /\ tool' = Returned(tool, TRUE, GeneratedCount(tool.images))
  /\ UNCHANGED <<store, clock, writes, served, req, resp, prev, log, pic, tasks>>

\* what is uploaded while tools are invoked
ToolUploads ==
  { Name("image_", "a", ".png") }

\* how an invocation is made: through the wrapper, with or without a tool
\* context, or as a call of the compute-only tool
Invokers ==
  { <<"wrapper", TRUE>>, <<"wrapper", FALSE>>, <<"compute", FALSE>> }

\* The compute-only tools run without an await, so an upload is served
\* between invocations or while the wrapper awaits save_artifact. The files
\* arrive in the directory's listing in the order they are written: no tool
\* lists the directory.
NextTools ==
  \/ \E name \in ToolUploads :
       /\ writes < MaxToolUploads /\ tool.pc \in {"idle", "done", "save"}
       /\ upload_image(name, 0, Len(store) + 1)
  \/ \E inv \in Invokers, asked \in ImagePaths, opens \in BOOLEAN :
       EditToolCall(inv[1], asked, inv[2], opens)
  \/ \E outcome \in ModelOutcomes, dt \in {0, 1}, saves \in BOOLEAN :
       EditModelCall(outcome, dt, Len(store) + 1, saves)
  \/ \E inv \in Invokers, pack_size \in {1, 2} :
       GenerateToolCall(inv[1], inv[2], pack_size)
  \/ \E outcome \in ModelOutcomes : GenerateModelCall(outcome, 1, Len(store) + 1)
  \/ SplitQuadrant(Len(store) + 1)
  \/ \E reads \in BOOLEAN : SplitFails(reads)
  \/ \E removed \in BOOLEAN : SplitRemove(removed)
  \/ \E saves \in {{}, 1..4, 2..4} : GenerateReturn(saves)

SpecTools ==
  Init /\ [][NextTools]_vars


\* ------------------------------------------------------------------
\* Splitting a grid image (src/app/tools/generate_image_tool.py):
\* split_grid_image and remove_white_borders on the pixels of the image
\* ------------------------------------------------------------------
\* remove_white_borders(image, threshold=240)
threshold == 240

\* padding = 5
padding == 5

\* a white pixel, as (r, g, b)
White ==
  <<255, 255, 255>>

\* what a grid is drawn with: black, a colour with one channel just below
\* the threshold, and a grey with every channel at the threshold
Inks ==
  { <<0, 0, 0>>, <<255, 255, 239>>, <<240, 240, 240>> }

\* Python's max(a, b) and min(a, b)
max(a, b) ==
  IF a >= b THEN a ELSE b

min(a, b) ==
  IF a <= b THEN a ELSE b

\* the greatest element of a non-empty set of numbers
Greatest(S) ==
  CHOOSE i \in S : \A j \in S : i >= j

\* PIL's box (left, upper, right, lower): the pixels (x, y) with
\* left <= x < right and upper <= y < lower
Box(left, upper, right, lower) ==
  [left |-> left, upper |-> upper, right |-> right, lower |-> lower]

\* the coordinates of the pixels of a width x height image
Coordinates(width, height) ==
  (0..(width - 1)) \X (0..(height - 1))

\* image.crop(box): the pixels of the box, counted from its corner
crop(image, box) ==
  [width  |-> box.right - box.left,
   height |-> box.lower - box.upper,
   pixels |-> [p \in Coordinates(box.right - box.left, box.lower - box.upper) |->
                 image.pixels[<<p[1] + box.left, p[2] + box.upper>>]]]

\* if r < threshold or g < threshold or b < threshold: the pixel is not white
NotWhite(rgb) ==
  rgb[1] < threshold \/ rgb[2] < threshold \/ rgb[3] < threshold

\* remove_white_borders up to its crop: the scan for the bounding box of the
\* pixels that are not white, starting from (width, height, 0, 0), and the
\* box that is kept, which is the whole image when the function returns the
\* image as it is
TrimBox(image) ==
  LET content == { p \in Coordinates(image.width, image.height) : NotWhite(image.pixels[p]) }
      min_x   == Least({image.width} \cup { p[1] : p \in content })
      min_y   == Least({image.height} \cup { p[2] : p \in content })
      max_x   == Greatest({0} \cup { p[1] : p \in content })
      max_y   == Greatest({0} \cup { p[2] : p \in content })
  IN  IF min_x >= max_x \/ min_y >= max_y
      THEN Box(0, 0, image.width, image.height)
      ELSE Box(max(0, min_x - padding), max(0, min_y - padding),
               min(image.width, max_x + padding), min(image.height, max_y + padding))

\* remove_white_borders(image)
remove_white_borders(image) ==
  crop(image, TrimBox(image))

\* a variant that goes down the left column first
Origins_ColumnMajor(quad_width, quad_height) ==
  << <<0, 0>>, <<0, quad_height>>, <<quad_width, 0>>, <<quad_width, quad_height>> >>

\* [(0, 0), (quad_width, 0), (0, quad_height), (quad_width, quad_height)]
Origins(quad_width, quad_height) ==
  << <<0, 0>>, <<quad_width, 0>>, <<0, quad_height>>, <<quad_width, quad_height>> >>

\* a variant that takes the box to include its right and lower bounds
QuadrantBox_Inclusive(origin, quad_width, quad_height) ==
  Box(origin[1], origin[2], origin[1] + quad_width - 1, origin[2] + quad_height - 1)

\* (x, y, x + quad_width, y + quad_height)
QuadrantBox(origin, quad_width, quad_height) ==
  Box(origin[1], origin[2], origin[1] + quad_width, origin[2] + quad_height)

\* the sizes of the grid images that are split: small ones, a wide one and a
\* tall one
LongSizes ==
  { <<MaxSide, 4>>, <<4, MaxSide>> }

GridSizes ==
  { <<2, 2>>, <<4, 4>>, <<3, 4>> } \cup LongSizes

\* the rectangles that are drawn on a width x height image
Rectangles(width, height) ==
  { Box(x1, y1, x2, y2) : x1 \in 0..(width - 1), y1 \in 0..(height - 1),
                          x2 \in 1..width, y2 \in 1..height }

\* a white image with a rectangle drawn in one colour
Draw(width, height, rect, ink) ==
  [width |-> width, height |-> height,
   pixels |-> [p \in Coordinates(width, height) |->
                 IF /\ rect.left <= p[1] /\ p[1] < rect.right
                    /\ rect.upper <= p[2] /\ p[2] < rect.lower
                 THEN ink ELSE White]]

\* the names of the grid images that are split
GridNames ==
  { Name("image_", "u1_1", ".png"), Name("image_", "a", ".jpg") }

\* the long images are drawn in black and named as a generation names them
InksOf(size) ==
  IF size \in LongSizes THEN { <<0, 0, 0>> } ELSE Inks

NamesFor(size) ==
  IF size \in LongSizes THEN { Name("image_", "u1_1", ".png") } ELSE GridNames

\* a grid image is in the upload directory
InitImage ==
  /\ memory = NewMemory
  /\ clock = 0
  /\ writes = 0
  /\ served = 0
  /\ req = IdleRequest
  /\ resp = NoResponse
  /\ prev = NoPrev
  /\ log = NoLog
  /\ tool = NoTool
  /\ tasks = NoTasks
  /\ \E size \in GridSizes :
       \E filename \in NamesFor(size), ink \in InksOf(size),
          rect \in Rectangles(size[1], size[2]) :
         /\ rect.left < rect.right /\ rect.upper < rect.lower
         /\ store = <<[name |-> filename, mtime |-> 0]>>
         /\ pic = [NoPicture EXCEPT !.pc = "saved", !.filename = filename,
                                    !.grid_image = Draw(size[1], size[2], rect, ink)]

RECURSIVE SaveAll(_, _, _)
\* quadrant.save(quad_filepath), for each quadrant in turn
SaveAll(dir, filenames, now) ==
  IF filenames = <<>> THEN dir
  ELSE SaveAll(WriteFile(dir, Head(filenames), now, Len(dir) + 1), Tail(filenames), now)

\* split_grid_image(filename, remove_original) when nothing raises: each of
\* the four quadrants is cropped, trimmed, named and saved, and the grid is
\* removed if asked and if os.remove succeeds. box records what was cropped
\* from the grid.
split_grid_image(remove_original, removed) ==
  /\ pic.pc = "saved"
  /\ pic.filename \in NamesOf(store)
  /\ LET grid_image  == pic.grid_image
         quad_width  == grid_image.width \div 2
         quad_height == grid_image.height \div 2
         origins     == Origins(quad_width, quad_height)
         split_data  ==
           [i \in 1..4 |->
              LET box      == QuadrantBox(origins[i], quad_width, quad_height)
                  quadrant == crop(grid_image, box)
              IN  [filename |-> QuadrantName(pic.filename, i),
                   image    |-> remove_white_borders(quadrant),
                   box      |-> box]]
         saved       == SaveAll(store, [i \in 1..4 |-> QuadrantName(pic.filename, i)], clock)
     IN  /\ pic' = [pic EXCEPT !.pc = "split", !.split_data = split_data]
         /\ store' = IF remove_original /\ removed
                     THEN RemoveFile(saved, pic.filename) ELSE saved
  /\ UNCHANGED <<memory, clock, writes, served, req, resp, prev, log, tool, tasks>>

NextImage ==
  \E remove_original \in BOOLEAN, removed \in BOOLEAN :
    split_grid_image(remove_original, removed)

SpecImage ==
  InitImage /\ [][NextImage]_vars


\* ------------------------------------------------------------------
\* The service on an upload directory that earlier requests have filled
\* ------------------------------------------------------------------
\* the i-th file of the directory: every third one is an edited image
StockName(i) ==
  Name(IF i % 3 = 0 THEN "edited_" ELSE "image_", Stems[i], ".png")

\* a directory of k files, the i-th written i seconds before the service is
\* asked
Stock(k) ==
  [i \in 1..k |-> [name |-> StockName(i), mtime |-> 0 - i]]

\* the directory holds up to MaxStock files and the memory is new
InitStocked ==
  /\ \E k \in 0..MaxStock : store = Stock(k)
  /\ memory = NewMemory
  /\ clock = 0
  /\ writes = 0
  /\ served = 0
  /\ req = IdleRequest
  /\ resp = NoResponse
  /\ prev = NoPrev
  /\ log = NoLog
  /\ tool = NoTool
  /\ pic = NoPicture
  /\ tasks = NoTasks

\* requests are served one after the other; the delegated call may write one
\* more file, save one, or raise
NextStocked ==
  \/ \E dt \in {0, 1} : AgentWrite(Name("edited_", "a", ".png"), dt, Len(store) + 1)
  \/ \E update_memory \in {"generated", "edited"} : AgentSave(StockName(1), update_memory)
  \/ AgentRaise
  \/ WaitFirstList
  \/ WaitWake
  \/ GenerateStart
  \/ \E m \in ChatMessages : GenerateAgentDone(m)
  \/ GenerateFinish
  \/ \E f \in {NoName, StockName(1)} : EditStart(f)
  \/ \E m \in ChatMessages : EditAgentDone(m)
  \/ EditFinish
  \/ \E text \in ChatTexts : ChatStart(text)
  \/ \E m \in ChatMessages : ChatAgentDone(m)
  \/ ChatFinish

SpecStocked ==
  InitStocked /\ [][NextStocked]_vars


\* ------------------------------------------------------------------
\* Requests in flight at once. Every handler and tool runs on the one event
\* loop and calls the setters of the session memory between two awaits, so
\* the call of a setter is one step and the requests' calls run in any order
\* ------------------------------------------------------------------
Setters ==
  {"set_last_generated", "set_last_edited"}

\* the names the requests in flight record: one the memory may hold, two new
TaskNames ==
  { Fresh(1), Fresh(11), Fresh(12) }

RECURSIVE Filled(_)
\* the memory after k generated images were recorded one after the other
Filled(k) ==
  IF k = 0 THEN NewMemory ELSE set_last_generated(Filled(k - 1), Fresh(k))

\* the requests in flight are awaiting wait_for_images, the delegated call or
\* save_artifact; the memory is new or holds nine or ten names
InitRace ==
  /\ store = <<>>
  /\ clock = 0
  /\ writes = 0
  /\ served = 0
  /\ req = IdleRequest
  /\ resp = NoResponse
  /\ prev = NoPrev
  /\ log = NoLog
  /\ tool = NoTool
  /\ pic = NoPicture
  /\ \E k \in {0, RecentCapacity - 1, RecentCapacity} :
       /\ memory = Filled(k)
       /\ \E of \in [1..MaxTasks -> [pc : {"awaiting"}, setter : Setters, filename : TaskNames]] :
            tasks = [of |-> of, ran |-> <<>>, start |-> Filled(k)]

\* the request p resumes and calls its setter: get_memory().set_last_...(filename)
RunUpdate(p) ==
  /\ p \in DOMAIN tasks.of
  /\ tasks.of[p].pc = "awaiting"
  /\ memory' = IF tasks.of[p].setter = "set_last_generated"
               THEN set_last_generated(memory, tasks.of[p].filename)
               ELSE set_last_edited(memory, tasks.of[p].filename)
  /\ tasks' = [tasks EXCEPT !.of[p].pc = "done", !.ran = Append(@, p)]
  /\ UNCHANGED <<store, clock, writes, served, req, resp, prev, log, tool, pic>>

NextRace ==
  \E p \in 1..MaxTasks : RunUpdate(p)

SpecRace ==
  InitRace /\ [][NextRace]_vars


\* ------------------------------------------------------------------
\* A generation invocation while wait_for_images polls. The handlers and
\* the tools are coroutines of one event loop: generate_image_compute has no
\* await from the model call to its return, so a coroutine of another
\* request runs before it, after it, or while the wrapper awaits
\* save_artifact
\* ------------------------------------------------------------------
\* a variant where another coroutine runs at any point of the invocation
Suspended_Anywhere(t) ==
  TRUE

\* the invocation t is not running: none has begun, it has returned, or the
\* wrapper is at await tool_context.save_artifact
Suspended(t) ==
  t.pc \in {"idle", "done", "save"}

NextCleanup ==
  \/ \E name \in ToolUploads :
       /\ writes < MaxToolUploads /\ Suspended(tool)
       /\ upload_image(name, 0, Len(store) + 1)
  \/ \E prefix \in Prefixes, limit \in Limits, w \in MaxWaitTimes, p \in PollIntervals :
       Suspended(tool) /\ PollCall(prefix, limit, w, p)
  \/ Suspended(tool) /\ WaitFirstList
  \/ Suspended(tool) /\ WaitWake
  \/ Suspended(tool) /\ PollReturn
  \/ \E inv \in Invokers : GenerateToolCall(inv[1], inv[2], 1)
  \/ \E outcome \in ModelOutcomes : GenerateModelCall(outcome, 1, Len(store) + 1)
  \/ SplitQuadrant(Len(store) + 1)
  \/ \E reads \in BOOLEAN : SplitFails(reads)
  \/ \E removed \in BOOLEAN : SplitRemove(removed)
  \/ \E saves \in {{}, 1..4} : GenerateReturn(saves)

SpecCleanup ==
  Init /\ [][NextCleanup]_vars


\* ------------------------------------------------------------------
\* wait_for_images on an upload directory that cannot always be read: a
\* listing may raise inside list_images
\* ------------------------------------------------------------------
\* waited = 0: the first listing raises inside list_images
WaitFirstListRaises ==
  /\ req.pc = "wait"
  /\ LET filenames == list_images_try(store, req.prefix, req.limit, TRUE)
         pc        == AfterListing(filenames, 0, req.max_wait_time)
     IN  req' = [req EXCEPT !.pc = pc, !.waited = 0, !.lists = 1, !.ver = writes, !.seen = writes,
                            !.sleeps = IF pc = "sleep" THEN 1 ELSE 0,
                            !.raised = 1,
                            !.filenames = filenames]
  /\ UNCHANGED <<store, memory, clock, writes, served, resp, prev, log, tool, pic, tasks>>

\* the sleep is over: waited += poll_interval, and the next listing raises
\* inside list_images
WaitWakeRaises ==
  /\ req.pc = "sleep"
  /\ clock' = clock + req.poll_interval
  /\ LET filenames == list_images_try(store, req.prefix, req.limit, TRUE)
         waited    == req.waited + req.poll_interval
         pc        == AfterListing(filenames, waited, req.max_wait_time)
     IN  req' = [req EXCEPT !.pc = pc, !.waited = waited, !.lists = @ + 1, !.seen = writes,
                            !.sleeps = IF pc = "sleep" THEN @ + 1 ELSE @,
                            !.raised = @ + 1,
                            !.filenames = filenames]
  /\ UNCHANGED <<store, memory, writes, served, resp, prev, log, tool, pic, tasks>>

NextFaulty ==
  \/ \E name \in Names, dt \in {0, 1} :
       writes < MaxEnvWrites /\ clock <= Horizon /\ upload_image(name, dt, Len(store) + 1)
  \/ \E prefix \in Prefixes, limit \in Limits, w \in MaxWaitTimes, p \in PollIntervals :
       PollCall(prefix, limit, w, p)
  \/ WaitFirstList
  \/ WaitFirstListRaises
  \/ WaitWake
  \/ WaitWakeRaises
  \/ PollReturn

SpecFaulty ==
  Init /\ [][NextFaulty]_vars


\* ------------------------------------------------------------------
\* Properties
\* ------------------------------------------------------------------
\* a generate or edit request has ended after wait_for_images returned
Reconciled ==
  req.kind \in {"generate", "edit"} /\ req.pc = "done" /\ req.lists > 0

\* wait_for_images has returned to its caller
PollerBack ==
  req.lists > 0 /\ req.pc \in {"returned", "done"}

\* the failure wording named by the specification
FailureLanguage(text) ==
  \E w \in {ErrorCap, ErrorLower, FailedLower, CannotLower, ICannot, OnlyGenerateLower} :
     Contains(w, text)

\* the fixed success text of a handler
GenericSuccess(kind, filenames) ==
  IF kind = "generate" THEN GeneratedText(filenames) ELSE ImageEditedSuccessfully

\* the PNG files of a directory whose names start with a prefix
Matching(dir, prefix) ==
  { n \in NamesOf(dir) : EndsWithPng(n) /\ StartsWith(n, prefix) }

\* C1: a generate, edit or chat request whose delegated call wrote no file
\* never ends in a success response.
C1_NoSuccessWithoutWrite ==
  (req.kind \in {"generate", "edit", "chat"} /\ req.pc = "done" /\ req.mine = {})
    => ~resp.success

\* C2: for a generate or edit request, a non-empty list returned by
\* wait_for_images means a success response, whatever the agent's message.
C2_ObservedMeansSuccess ==
  (Reconciled /\ req.filenames # <<>>)
    => (resp.success /\ resp.status = 200 /\ resp.filenames # <<>>)

\* C2 witness: an edit request succeeds although the agent's message reports
\* an error.
C2_Witness ==
  /\ Reconciled /\ req.kind = "edit" /\ req.filenames # <<>>
  /\ req.message = MsgErrorCannotEdit /\ resp.success

\* C3: for a generate or edit request, an empty list returned by
\* wait_for_images means an error response, never success, whatever the
\* agent's message.
C3_EmptyMeansFailure ==
  (Reconciled /\ req.filenames = <<>>)
    => (~resp.success /\ resp.status = 500 /\ resp.filenames = <<>>)

\* C3 witness: a generate request fails although the agent's message claims
\* success.
C3_Witness ==
  /\ Reconciled /\ req.kind = "generate" /\ req.filenames = <<>>
  /\ req.message = MsgClaimsSuccess /\ ~resp.success

\* C4 as stated: with a non-empty observed list the response message is the
\* generic success text and the agent's text does not appear in it.
C4_AlwaysGeneric ==
  (Reconciled /\ req.filenames # <<>>)
    => /\ resp.message = GenericSuccess(req.kind, req.filenames)
       /\ req.message # <<>> => ~Contains(req.message, resp.message)

\* C4 as amended: with a non-empty observed list the response message is the
\* generic success text when the agent's message is empty or carries one of
\* the handler's error indicators, and the agent's message itself otherwise.
C4_GenericWhenErrorOrEmpty ==
  (Reconciled /\ req.filenames # <<>>)
    => LET m       == req.message
           flagged == \/ Contains(ErrorColon, m)
                      \/ Contains(ErrorLower, Lower(m))
                      \/ Contains(FailedLower, Lower(m))
                      \/ /\ req.kind = "edit"
                         /\ \/ Contains(CannotEditLower, Lower(m))
                            \/ Contains(OnlyGenerateLower, Lower(m))
                            \/ Contains(ICannot, m)
       IN  resp.message = IF m = <<>> \/ flagged
                          THEN GenericSuccess(req.kind, req.filenames)
                          ELSE m

\* C4 witness: a generate request found images and answers with the agent's
\* own text, which has no error wording.
C4_Witness ==
  /\ Reconciled /\ req.kind = "generate" /\ req.filenames # <<>>
  /\ req.message = MsgDone /\ resp.message = MsgDone

\* C5: with a non-empty observed list and failure wording in the agent's
\* message, the response message of a generate or edit request carries none
\* of the failure wording.
C5_NoFailureLanguage ==
  (Reconciled /\ req.filenames # <<>> /\ FailureLanguage(req.message))
    => ~FailureLanguage(resp.message)

\* C6 as stated: with an empty observed list the failure message is the
\* agent's message when that is non-empty.
C6_SurfacesAgentMessage ==
  (Reconciled /\ req.filenames = <<>> /\ req.message # <<>>)
    => resp.message = req.message

\* C6 as amended: with an empty observed list the failure message is the
\* handler's own fixed text, whatever the agent's message is.
C6_AlwaysFallback ==
  (Reconciled /\ req.filenames = <<>>)
    => IF req.kind = "edit"
       THEN resp.message = EditedImageNotFound
       ELSE \/ resp.message = NoImagesGenerated \o NoPngFilesFound
            \/ \E n \in 1..Len(store) :
                 resp.message = NoImagesGenerated \o FoundPrefix \o IntToStr(n)
                                  \o OtherImagesSuffix

\* C6 witness: a generate request that found nothing answers with the
\* fallback although the agent's message is not empty.
C6_Witness ==
  /\ Reconciled /\ req.kind = "generate" /\ req.filenames = <<>>
  /\ req.message = MsgErrorCannotEdit
  /\ resp.message = NoImagesGenerated \o NoPngFilesFound

C8_EmptyWhenNothingMatches ==
  /\ (req.kind = "poll" /\ PollerBack /\ Matching(store, req.prefix) = {})
       => /\ req.filenames = <<>>
          /\ req.waited >= req.max_wait_time
          /\ req.max_wait_time = 0 => (req.lists = 1 /\ req.sleeps = 0 /\ req.waited = 0)
  /\ (req.kind = "poll" /\ req.max_wait_time = 0) => req.pc # "sleep"

\* C8 witness: a call with max_wait_time = 0 returned the empty list from a
\* directory that holds files, none of them matching.
C8_Witness ==
  /\ req.kind = "poll" /\ PollerBack /\ req.max_wait_time = 0
  /\ store # <<>> /\ Matching(store, req.prefix) = {}
  /\ req.filenames = <<>> /\ req.lists = 1

\* C9: with matching files present and the directory unchanged,
\* wait_for_images returns after its first listing without sleeping, a
\* repeated call with the same arguments returns the same list, and no step
\* of wait_for_images changes the directory or the session memory.
C9_Idempotent ==
  /\ [](/\ (req.kind = "poll" /\ PollerBack /\ req.ver = writes
              /\ Matching(store, req.prefix) # {})
             => (req.sleeps = 0 /\ req.lists = 1 /\ req.filenames # <<>>)
        /\ (req.kind = "poll" /\ req.pc = "returned" /\ prev.valid /\ prev.ver = writes
              /\ prev.filenames # <<>>)
             => (req.filenames = prev.filenames /\ req.sleeps = 0))
  /\ [][(req.kind = "poll" /\ req' # req) => (store' = store /\ memory' = memory)]_vars

\* C9 witness: a second call returned the list of the first, at once, from
\* an unchanged directory.
C9_Witness ==
  /\ req.kind = "poll" /\ req.pc = "returned" /\ prev.valid /\ prev.ver = writes
  /\ prev.filenames # <<>> /\ req.filenames = prev.filenames /\ req.sleeps = 0

\* C10: a list returned by wait_for_images holds only PNG names with the
\* prefix, no name twice, newest first, at most limit of them, and no
\* matching file left out is newer than one that is in it.
C10_NewestFirst ==
  (req.kind = "poll" /\ PollerBack /\ req.seen = writes)
    => LET r == req.filenames
       IN  /\ \A i \in 1..Len(r) : r[i] \in Matching(store, req.prefix)
           /\ \A i, j \in 1..Len(r) : i < j =>
                (r[i] # r[j] /\ MTime(store, r[i]) >= MTime(store, r[j]))
           /\ Len(r) <= req.limit
           /\ \A n \in Matching(store, req.prefix) :
                ~InSeq(n, r) =>
                  /\ Len(r) = req.limit
                  /\ \A i \in 1..Len(r) : MTime(store, n) <= MTime(store, r[i])

\* C10 witness: a call returned the newest matching file and left an older
\* one out.
C10_Witness ==
  /\ req.kind = "poll" /\ PollerBack /\ req.seen = writes
  /\ Len(req.filenames) = req.limit
  /\ \E n \in Matching(store, req.prefix) :
       ~InSeq(n, req.filenames) /\ MTime(store, n) < MTime(store, req.filenames[1])

\* the least number of poll intervals that cover a wait
CeilDiv(a, b) ==
  (a + b - 1) \div b

\* C11: every call of wait_for_images returns, whatever is written to the
\* directory meanwhile, and it has slept at most
\* ceil(max_wait_time / poll_interval) times, each sleep starting with the
\* bound not yet reached.
C11_PollerTerminates ==
  /\ [](req.kind = "poll" =>
          /\ req.sleeps <= CeilDiv(req.max_wait_time, req.poll_interval)
          /\ req.pc = "sleep" => req.waited < req.max_wait_time)
  /\ ((req.kind = "poll" /\ req.pc = "wait") ~> (req.kind = "poll" /\ req.pc = "returned"))

\* C11 witness: a call whose bound is not a multiple of the interval came
\* back empty-handed after ceil(3 / 2) = 2 sleeps.
C11_Witness ==
  /\ req.kind = "poll" /\ req.pc = "returned" /\ req.filenames = <<>>
  /\ req.max_wait_time = 3 /\ req.poll_interval = 2
  /\ req.sleeps = 2 /\ req.waited = 4

\* C12: every name in a chat response's filenames, the first of which is the
\* name the chat request records in the session memory, was written while
\* that request was being served: none was last written before it started.
C12_ChatOwnArtifactsOnly ==
  (req.kind = "chat" /\ req.pc = "done" /\ resp.status = 200)
    => /\ \A i \in 1..Len(resp.filenames) : MTime(store, resp.filenames[i]) >= req.start
       /\ req.filenames # <<>> => MTime(store, req.filenames[1]) >= req.start

\* C13: after any sequence of set_last_generated and set_last_edited calls
\* the recent list holds no name twice and at most ten names.
C13_RecentDistinctAndCapped ==
  LET recent == memory.recent_images
  IN  /\ Len(recent) <= 10
      /\ \A i, j \in 1..Len(recent) : i # j => recent[i] # recent[j]

\* C13 witness: an eleventh name has been recorded and the list holds ten.
C13_Witness ==
  /\ Len(log.order) = 11
  /\ Len(memory.recent_images) = 10
  /\ ~InSeq(Fresh(1), memory.recent_images)

\* C14: a setter called with a name the recent list already holds leaves the
\* list exactly as it was and sets its own pointer to the name, leaving the
\* other pointer alone.
C14_RepeatLeavesRecent ==
  [][(log'.calls # log.calls /\ InSeq(log'.filename, memory.recent_images))
       => /\ memory'.recent_images = memory.recent_images
          /\ IF log'.setter = "set_last_generated"
             THEN /\ memory'.last_generated = log'.filename
                  /\ memory'.last_edited = memory.last_edited
             ELSE /\ memory'.last_edited = log'.filename
                  /\ memory'.last_generated = memory.last_generated]_vars

\* C14 witness: the latest call passed a name that was in the list already,
\* behind newer ones, and it is still where it was.
C14_Witness ==
  /\ log.calls > Len(log.order)
  /\ log.setter = "set_last_edited" /\ memory.last_edited = log.filename
  /\ Len(log.order) <= 10
  /\ \E i \in 2..Len(memory.recent_images) :
       /\ memory.recent_images[i] = log.filename
       /\ log.order[Len(log.order) + 1 - i] = log.filename

\* C15: when every call so far passed a name not passed before, n names in
\* all, the recent list holds exactly the last min(n, 10) of them, the latest
\* first; with n = 11 the name recorded first is the one left out.
C15_KeepsLatestTen ==
  log.calls = Len(log.order)
    => LET n      == Len(log.order)
           kept   == IF n < 10 THEN n ELSE 10
           recent == memory.recent_images
       IN  /\ Len(recent) = kept
           /\ \A i \in 1..kept : recent[i] = log.order[n + 1 - i]
           /\ n = 11 => /\ ~InSeq(log.order[1], recent)
                        /\ \A k \in 2..11 : InSeq(log.order[k], recent)

\* C15 witness: eleven names, no name twice, through both setters; the first
\* one is gone and the eleventh leads the list.
C15_Witness ==
  /\ log.calls = 11 /\ Len(log.order) = 11
  /\ memory.last_generated # NoName /\ memory.last_edited # NoName
  /\ memory.recent_images[1] = log.order[11]
  /\ memory.recent_images[10] = log.order[2]

\* a generate or edit request ends in success after wait_for_images found
\* its file
ConfirmedStep ==
  /\ req.kind \in {"generate", "edit"} /\ req.pc = "returned" /\ req.filenames # <<>>
  /\ req'.pc = "done" /\ resp'.success

\* C16 as stated: the session memory changes only in the step that ends a
\* generate or edit request in confirmed success.
C16_OnlyConfirmedInvocations ==
  [][memory' # memory => ConfirmedStep]_vars

\* C16 as amended: the session memory changes only in these steps, and only
\* by one call of a setter: a generate or edit request ending in confirmed
\* success (the first file found), an upload (the uploaded name, as
\* last_generated), a chat request that found recent images (the newest, as
\* last_edited when its name starts with "edited_", else as last_generated),
\* and a save_image_artifact_tool call with update_memory "generated" or
\* "edited" on an existing file. A request that fails, waits or is refused,
\* and a file written by the delegated call, change nothing.
C16_OnlyTheseWriters ==
  [][memory' # memory =>
       \/ /\ ConfirmedStep
          /\ memory' = IF req.kind = "generate"
                       THEN set_last_generated(memory, req.filenames[1])
                       ELSE set_last_edited(memory, req.filenames[1])
       \/ /\ writes' = writes + 1 /\ req' = req
          /\ \E name \in NamesOf(store') :
               /\ MTime(store', name) = clock'
               /\ memory' = set_last_generated(memory, name)
       \/ /\ req.kind = "chat" /\ req.pc = "chatsleep" /\ req'.pc = "done"
          /\ resp'.filenames # <<>>
          /\ memory' = IF resp'.filenames[1].pre = "edited_"
                       THEN set_last_edited(memory, resp'.filenames[1])
                       ELSE set_last_generated(memory, resp'.filenames[1])
       \/ /\ req.pc = "run" /\ req' = req /\ store' = store
          /\ \E name \in NamesOf(store) :
               \/ memory' = set_last_generated(memory, name)
               \/ memory' = set_last_edited(memory, name)]_vars

\* C16 witness: no request has been served yet and the memory already names
\* an uploaded file.
C16_Witness ==
  /\ served = 0 /\ store # <<>>
  /\ memory.last_generated = store[1].name
  /\ memory.recent_images = <<store[1].name>>

\* C17: an edit without a source works on last_generated when that is set
\* and on the first entry of the recent list otherwise, in the request
\* handler and in the edit tool alike; so once a name has been recorded as
\* generated, any number of names recorded as edited after it leave the
\* generated one the target.
C17_TargetIsLastGenerated ==
  LET recent == memory.recent_images
      target == ImageToEdit(NoName, memory)
  IN  /\ target = IF memory.last_generated # NoName THEN memory.last_generated
                  ELSE IF recent # <<>> THEN recent[1] ELSE NoName
      /\ ResolveImagePath(NoName, memory) = target
      /\ log.generated # NoName => target = log.generated

\* C17 witness: a generated name, then two edited ones; the newest entry of
\* the recent list is an edited name and the target is the generated one.
C17_Witness ==
  /\ log.generated # NoName
  /\ log.setter = "set_last_edited"
  /\ Len(memory.recent_images) >= 3
  /\ memory.recent_images[1] = memory.last_edited
  /\ memory.recent_images[3] = log.generated
  /\ ImageToEdit(NoName, memory) = log.generated

\* C18: an edit request without a source, arriving while last_generated is
\* unset and the recent list is empty, is answered 400 with the no-image
\* text at once: the agent is never run for it, no file is written and the
\* session memory stays as it was.
C18_NoTargetRefused ==
  /\ [][(served' = served + 1 /\ req'.kind = "edit" /\ req'.source = NoName
           /\ memory.last_generated = NoName /\ memory.recent_images = <<>>)
          => /\ resp' = HTTPError(400, NoImageAvailable)
             /\ req'.pc = "done"
             /\ store' = store /\ writes' = writes /\ memory' = memory]_vars
  /\ [](resp.status = 400
          => /\ req.kind = "edit" /\ req.pc = "done" /\ req.source = NoName
             /\ req.mine = {} /\ req.message = <<>> /\ req.lists = 0)

\* C18 witness: the second request, an edit without a source, is refused;
\* the directory holds a file the memory never heard of.
C18_Witness ==
  /\ req.kind = "edit" /\ req.id = 2 /\ req.source = NoName
  /\ resp = HTTPError(400, NoImageAvailable)
  /\ store # <<>> /\ memory = NewMemory

\* the text of the source-not-found failure for the source an invocation
\* was asked to edit
NotFoundText(t) ==
  (IF t.via = "wrapper" THEN "Error: " ELSE "") \o "Image file not found: "
    \o t.asked.pre \o t.asked.stem \o t.asked.ext

\* C19: an edit invocation naming a source that exists neither in the
\* upload directory nor as a path of its own returns the file-not-found
\* failure at once: the model is not called, no file is written and the
\* session memory stays as it was.
C19_MissingSourceFails ==
  /\ [][(served' = served + 1 /\ tool'.kind = "edit" /\ tool'.asked # NoName
           /\ tool'.asked \notin NamesOf(store) /\ tool'.asked \notin Elsewhere)
          => /\ tool'.pc = "done" /\ ~tool'.ok /\ tool'.text = NotFoundText(tool')
             /\ tool'.calls = 0 /\ tool'.written = {}
             /\ store' = store /\ memory' = memory]_vars
  /\ []((tool.kind = "edit" /\ tool.asked # NoName /\ tool.text = NotFoundText(tool))
          => (tool.pc = "done" /\ ~tool.ok /\ tool.calls = 0 /\ tool.written = {}))

\* C19 witness: the second invocation, through the wrapper, names a file
\* that was never uploaded; the first one left files and a memory entry
\* behind, which are not used instead.
C19_Witness ==
  /\ tool.kind = "edit" /\ tool.via = "wrapper" /\ tool.id = 2 /\ tool.pc = "done"
  /\ tool.asked = Name("image_", "a", ".png") /\ tool.asked \notin NamesOf(store)
  /\ tool.text = NotFoundText(tool)
  /\ store # <<>> /\ memory.last_generated # NoName

\* C20 as stated: no generation or edit invocation calls the image model
\* more than once.
C20_AtMostOneModelCall ==
  tool.calls <= 1

\* C20 as amended: a generation invocation calls the image model at most
\* once; an edit invocation calls it a second time when, and only when, its
\* first call raised, and never a third time.
C20_OneCallAndOneFallback ==
  /\ tool.kind = "generate" => tool.calls <= 1
  /\ tool.kind = "edit" =>
       /\ tool.calls <= 2
       /\ tool.calls = 2 => tool.raised >= 1
       /\ (tool.raised >= 1 /\ tool.pc = "done") => tool.calls = 2
  /\ tool.pc = "model" => tool.calls = tool.raised

\* C20 witness: an edit invocation whose first model call raised and whose
\* second one delivered the image.
C20_Witness ==
  /\ tool.kind = "edit" /\ tool.pc = "done" /\ tool.ok
  /\ tool.calls = 2 /\ tool.raised = 1 /\ tool.images # <<>>

\* C21: when the model call of a generation raises or answers without an
\* image, the invocation returns failure at that step, with the failure
\* text of generate_image_compute, and the upload directory is what it was:
\* neither a grid nor a quadrant has been written
C21_ModelFailureWritesNothing ==
  /\ [][ ( /\ tool.kind = "generate" /\ tool.pc = "model"
           /\ tool'.calls = tool.calls + 1
           /\ tool'.composite = NoName )
         => ( /\ store' = store
              /\ tool'.pc = "done" /\ ~tool'.ok
              /\ tool'.text = ToolError(tool.via, FailedToGenerateAny)
              /\ tool'.written = {} /\ tool'.images = <<>>
              /\ memory' = memory ) ]_vars
  /\ [] ( ( /\ tool.kind = "generate" /\ tool.pc = "done"
            /\ tool.composite = NoName )
          => ~tool.ok /\ tool.written = {} )

\* a second invocation, a generation, has failed at its one model call, which
\* raised, with a file in the upload directory
C21_Witness ==
  /\ tool.kind = "generate" /\ tool.pc = "done" /\ ~tool.ok
  /\ tool.composite = NoName /\ tool.calls = 1
  /\ store # <<>>
  /\ tool.id = 2 /\ tool.raised = 1

\* the names split_grid_image gives the quadrants of a grid, in its order
QuadrantsOf(composite) ==
  [i \in 1..4 |-> QuadrantName(composite, i)]

\* a generation has returned success
GenerationSucceeded ==
  tool.kind = "generate" /\ tool.pc = "done" /\ tool.ok

\* C22 as stated: a generation that returns success returns four names, all
\* of files in the upload directory, the grid is not among them and is no
\* longer in the directory
C22_SuccessIsFourAndGridDeleted ==
  GenerationSucceeded
    => /\ Len(tool.images) = 4
       /\ \A i \in 1..4 : tool.images[i] \in NamesOf(store)
       /\ \A i \in 1..4 : tool.images[i] # tool.composite
       /\ tool.composite \notin NamesOf(store)

\* C22 as amended: a generation that returns success returns either the four
\* quadrants of its grid, all in the upload directory and the grid not among
\* them, or, when the split failed, the grid alone, which is in the
\* directory; a file leaves the directory only as the grid of the running
\* generation, once its four quadrants are in the directory
C22_FourQuadrantsOrTheGrid ==
  /\ [] ( GenerationSucceeded
          => \/ /\ tool.images = QuadrantsOf(tool.composite)
                /\ tool.quads = 4
                /\ \A i \in 1..4 : tool.images[i] \in NamesOf(store)
                /\ \A i \in 1..4 : tool.images[i] # tool.composite
             \/ /\ tool.images = <<tool.composite>>
                /\ tool.quads < 4
                /\ tool.composite \in NamesOf(store) )
  /\ [][ \A n \in NamesOf(store) \ NamesOf(store') :
           /\ n = tool.composite /\ tool.kind = "generate" /\ tool.quads = 4
           /\ \A i \in 1..4 : QuadrantName(n, i) \in NamesOf(store)
           /\ store' = RemoveFile(store, n) ]_vars

\* a generation has returned its four quadrants and its grid has been removed
C22_Witness ==
  /\ GenerationSucceeded /\ Len(tool.images) = 4
  /\ tool.composite \notin NamesOf(store)
  /\ Len(store) = 4

\* the split of the running generation's grid has failed: the grid was
\* written and the generation moved on with fewer than four quadrants
SplitFailed ==
  /\ tool.kind = "generate" /\ tool.pc \in {"save", "done"}
  /\ tool.composite # NoName /\ tool.quads < 4

\* C23 as stated: a generation whose grid could not be opened or split is
\* never a success, and none of the files it wrote is in the upload directory
C23_SplitFailureFailsAndLeavesNothing ==
  (SplitFailed /\ tool.pc = "done")
    => ~tool.ok /\ tool.written \cap NamesOf(store) = {}

\* C23 as amended: when the split fails the generation falls back to the
\* grid: it is a success returning the grid alone if the grid's file can be
\* read, and a failure otherwise; the failing step removes nothing, and in
\* both cases the grid and the quadrants written so far stay in the directory
C23_SplitFailureFallsBackToGrid ==
  /\ [][ ( /\ tool.kind = "generate" /\ tool.pc = "split" /\ tool.quads < 4
           /\ tool'.pc # "split" )
         => /\ store' = store /\ memory' = memory
            /\ tool'.quads = tool.quads /\ tool'.written = tool.written
            /\ \/ tool'.pc = "save" /\ tool'.images = <<tool.composite>>
               \/ /\ tool'.pc = "done" /\ ~tool'.ok /\ tool'.images = <<>>
                  /\ tool'.text = ToolError(tool.via, FailedToGenerateAny) ]_vars
  /\ [] ( SplitFailed
          => /\ tool.written =
                  {tool.composite} \cup { QuadrantName(tool.composite, i) : i \in 1..tool.quads }
             /\ tool.written \subseteq NamesOf(store)
             /\ tool.pc = "done" => (tool.ok <=> tool.images = <<tool.composite>>) )

\* a generation whose grid could not be opened has returned success with the
\* grid as its one image
C23_Witness ==
  /\ SplitFailed /\ tool.pc = "done" /\ tool.ok
  /\ tool.quads = 0 /\ tool.images = <<tool.composite>>
  /\ tool.composite \in NamesOf(store)

\* C24 as stated: a generation whose split stopped after k quadrants, k
\* between 1 and 3, is a success that returns those k quadrants
C24_PartialSplitReturnsItsQuadrants ==
  (SplitFailed /\ tool.pc = "done" /\ tool.quads > 0)
    => /\ tool.ok
       /\ tool.images = [i \in 1..tool.quads |-> QuadrantName(tool.composite, i)]

\* C24 as amended: a generation whose split stopped after k quadrants, k
\* between 1 and 3, returns none of them: it is a success returning the grid
\* alone, or a failure returning nothing when the grid's file cannot be read,
\* and the k quadrants stay in the upload directory
C24_PartialSplitReturnsTheGrid ==
  (SplitFailed /\ tool.pc = "done" /\ tool.quads > 0)
    => /\ \/ tool.ok /\ tool.images = <<tool.composite>>
          \/ /\ ~tool.ok /\ tool.images = <<>>
             /\ tool.text = ToolError(tool.via, FailedToGenerateAny)
       /\ \A i \in 1..tool.quads :
            /\ QuadrantName(tool.composite, i) \in NamesOf(store)
            /\ \A j \in 1..Len(tool.images) :
                 tool.images[j] # QuadrantName(tool.composite, i)
       /\ \A i \in (tool.quads + 1)..4 :
            QuadrantName(tool.composite, i) \notin NamesOf(store)

\* a generation whose split stopped after two quadrants has returned success
\* with the grid as its one image
C24_Witness ==
  /\ SplitFailed /\ tool.pc = "done" /\ tool.ok
  /\ tool.quads = 2 /\ tool.images = <<tool.composite>>
  /\ QuadrantName(tool.composite, 2) \in NamesOf(store)

\* C25: no tool invocation writes a file under a name that is already in the
\* upload directory: every name an invocation adds to what it has written is
\* new to the directory at that step
C25_NeverWritesAnExistingName ==
  [][ \A n \in tool'.written \ tool.written : n \notin NamesOf(store) ]_vars

\* C26: the file a successful edit has written has a name that starts with
\* "edited_" and is in the listing the edit handler waits for,
\* list_images(prefix="edited_", limit=1), when the edit returns
C26_EditedFileIsListed ==
  (tool.kind = "edit" /\ tool.pc = "done" /\ tool.ok)
    => \A n \in tool.written :
         /\ StartsWith(n, "edited_")
         /\ InSeq(n, list_images(store, "edited_", 1))

\* C27: the split names its four quadrants <base>_1 to <base>_4 with the
\* extension of the grid, whatever the grid's size and pixels, and quadrant
\* i is the region of the grid in row-major order: 1 at (0, 0), 2 at
\* (W/2, 0), 3 at (0, H/2), 4 at (W/2, H/2), each W/2 wide and H/2 high
C27_QuadrantsNamedRowMajor ==
  pic.pc = "split"
    => /\ Len(pic.split_data) = 4
       /\ \A i \in 1..4 :
            LET q  == pic.split_data[i]
                qw == pic.grid_image.width \div 2
                qh == pic.grid_image.height \div 2
            IN  /\ q.filename.pre = pic.filename.pre
                /\ q.filename.stem = pic.filename.stem \o "_" \o ToString(i)
                /\ q.filename.ext = pic.filename.ext
                /\ q.filename \in NamesOf(store)
                /\ q.box.left = ((i - 1) % 2) * qw
                /\ q.box.upper = ((i - 1) \div 2) * qh
                /\ q.box.right = q.box.left + qw
                /\ q.box.lower = q.box.upper + qh

\* a 4 x 4 grid named image_a.jpg has been split: its second quadrant is
\* image_a_2.jpg, cropped at (2, 0), and its third image_a_3.jpg, at (0, 2)
C27_Witness ==
  /\ pic.pc = "split" /\ pic.grid_image.width = 4 /\ pic.grid_image.height = 4
  /\ pic.split_data[2].filename = Name("image_", "a_2", ".jpg")
  /\ pic.split_data[2].box = Box(2, 0, 4, 2)
  /\ pic.split_data[3].filename = Name("image_", "a_3", ".jpg")
  /\ pic.split_data[3].box = Box(0, 2, 2, 4)

\* the pixel p of the grid lies in the box
InBox(p, box) ==
  /\ box.left <= p[1] /\ p[1] < box.right
  /\ box.upper <= p[2] /\ p[2] < box.lower

\* C28: when the width and the height of the grid are even, the four regions
\* the split crops lie inside the grid and every pixel of the grid is in
\* exactly one of them
C28_QuadrantsTileEvenGrid ==
  ( /\ pic.pc = "split"
    /\ pic.grid_image.width % 2 = 0 /\ pic.grid_image.height % 2 = 0 )
    => /\ \A p \in Coordinates(pic.grid_image.width, pic.grid_image.height) :
            Cardinality({ i \in 1..4 : InBox(p, pic.split_data[i].box) }) = 1
       /\ \A i \in 1..4 :
            LET box == pic.split_data[i].box
            IN  /\ 0 <= box.left /\ box.left < box.right
                /\ box.right <= pic.grid_image.width
                /\ 0 <= box.upper /\ box.upper < box.lower
                /\ box.lower <= pic.grid_image.height

\* a grid of even width and height, one side longer than 4, has been split
C28_Witness ==
  /\ pic.pc = "split"
  /\ pic.grid_image.width % 2 = 0 /\ pic.grid_image.height % 2 = 0
  /\ pic.grid_image.width > 4
  /\ pic.split_data[4].box.lower = pic.grid_image.height

\* the pixels of an image with a channel below the threshold
ContentOf(image) ==
  { p \in Coordinates(image.width, image.height) :
      \E c \in 1..3 : image.pixels[p][c] < threshold }

\* the least box around the content of an image, five pixels wider on each
\* of its four sides and cut at the image's edges; the image has content
PaddedBoundingBox(image) ==
  LET xs == { p[1] : p \in ContentOf(image) }
      ys == { p[2] : p \in ContentOf(image) }
  IN  Box(max(0, Least(xs) - 5), max(0, Least(ys) - 5),
          min(image.width, Greatest(xs) + 1 + 5), min(image.height, Greatest(ys) + 1 + 5))

\* the quadrant i of the grid as the split crops it, before the trim
QuadrantOf(i) ==
  crop(pic.grid_image, pic.split_data[i].box)

\* C29: the image saved for a quadrant that has content is the quadrant
\* cropped to the least box around its content with five more pixels on each
\* side, as far as the quadrant reaches
C29_TrimKeepsPaddedBoundingBox ==
  pic.pc = "split"
    => \A i \in 1..4 :
         ContentOf(QuadrantOf(i)) # {}
           => pic.split_data[i].image
                = crop(QuadrantOf(i), PaddedBoundingBox(QuadrantOf(i)))

\* C30: the image saved for a quadrant is the whole quadrant when the
\* quadrant has no content, and is smaller than the quadrant whenever it has
\* content, be it one pixel, one row or one column, whose box with five
\* pixels around it is smaller than the quadrant
C30_UncroppedOnlyWithoutContent ==
  pic.pc = "split"
    => \A i \in 1..4 :
         LET quadrant == QuadrantOf(i)
             image    == pic.split_data[i].image
         IN  /\ ContentOf(quadrant) = {} => image = quadrant
             /\ ( /\ ContentOf(quadrant) # {}
                  /\ PaddedBoundingBox(quadrant) # Box(0, 0, quadrant.width, quadrant.height) )
                => (image.width < quadrant.width \/ image.height < quadrant.height)

\* C31: a response of the generate handler names at most 4 files, a response
\* of the chat handler at most 4, and a successful response of the edit
\* handler exactly 1, whatever the upload directory holds
C31_ResponsesAreCapped ==
  (req.pc = "done" /\ resp.status = 200)
    => /\ req.kind = "generate" => Len(resp.filenames) <= 4
       /\ req.kind = "chat" => Len(resp.filenames) <= 4
       /\ req.kind = "edit" => resp.success /\ Len(resp.filenames) = 1

\* a generate request has answered with 4 names while the directory holds
\* more than 4 PNG files, two of them edited images
C31_Witness ==
  /\ req.pc = "done" /\ req.kind = "generate" /\ resp.status = 200
  /\ Len(resp.filenames) = 4
  /\ Len(list_images(store, "", DefaultLimit)) > 4
  /\ Len(list_images(store, "edited_", DefaultLimit)) > 1

\* the updates of one setter that have run, in the order they ran
RanOf(setter) ==
  SelectSeq(tasks.ran, LAMBDA p : tasks.of[p].setter = setter)

\* the name a pointer holds by last-writer-wins: the argument of the update
\* of its setter that ran last, or what it held before any ran
LastWritten(setter, before) ==
  IF RanOf(setter) = <<>> THEN before
  ELSE tasks.of[RanOf(setter)[Len(RanOf(setter))]].filename

RECURSIVE OneAfterTheOther(_, _)
\* the memory after the updates of the requests in order ran one after the
\* other, each to its end, from the memory mem
OneAfterTheOther(mem, order) ==
  IF order = <<>> THEN mem
  ELSE LET t == tasks.of[Head(order)]
       IN  OneAfterTheOther(IF t.setter = "set_last_generated"
                            THEN [last_generated |-> t.filename,
                                  last_edited    |-> mem.last_edited,
                                  recent_images  |->
                                    IF InSeq(t.filename, mem.recent_images)
                                    THEN mem.recent_images
                                    ELSE SubSeq(<<t.filename>> \o mem.recent_images, 1,
                                                min(10, Len(mem.recent_images) + 1))]
                            ELSE [last_generated |-> mem.last_generated,
                                  last_edited    |-> t.filename,
                                  recent_images  |->
                                    IF InSeq(t.filename, mem.recent_images)
                                    THEN mem.recent_images
                                    ELSE SubSeq(<<t.filename>> \o mem.recent_images, 1,
                                                min(10, Len(mem.recent_images) + 1))],
                            Tail(order))

\* C32: whatever the order in which the requests in flight update the
\* memory, each pointer holds the argument of the update of its setter that
\* ran last, the recent list has no name twice and at most 10 names, and the
\* memory is what the same updates leave when they run one after the other
\* in the order in which they ran
C32_LastWriterWins ==
  /\ memory.last_generated = LastWritten("set_last_generated", tasks.start.last_generated)
  /\ memory.last_edited = LastWritten("set_last_edited", tasks.start.last_edited)
  /\ Len(memory.recent_images) <= 10
  /\ \A i, j \in 1..Len(memory.recent_images) :
       memory.recent_images[i] = memory.recent_images[j] => i = j
  /\ memory = OneAfterTheOther(tasks.start, tasks.ran)

\* three requests were in flight with a full recent list: the one that
\* records a new edited name ran first, the two generations after it in the
\* reverse of their order of arrival, and the pointer holds the first one's name
C32_Witness ==
  /\ Len(tasks.start.recent_images) = 10
  /\ Len(tasks.ran) = 3 /\ tasks.ran[2] = 3 /\ tasks.ran[3] = 1
  /\ tasks.of[1].setter = "set_last_generated" /\ tasks.of[3].setter = "set_last_generated"
  /\ tasks.of[2].setter = "set_last_edited"
  /\ tasks.of[1].filename # tasks.of[3].filename
  /\ memory.last_generated = tasks.of[1].filename
  /\ memory.last_edited = Fresh(11)

\* the grid images the generation invocations so far may have written
Composites ==
  { CompositeName(id, i) : id \in 1..served, i \in 1..2 }

\* the names wait_for_images has listed last, in the call under way and in
\* the one that returned before it
Listed ==
  { n \in NamesOf(store) : InSeq(n, req.filenames) \/ InSeq(n, prev.filenames) }

\* C33 as stated: no listing of wait_for_images returns the name of a grid
\* image, and no name it has returned is removed from the upload directory
\* afterwards.
C33_NoCompositeListedNoneDeleted ==
  [][ /\ \A n \in Composites : ~InSeq(n, req'.filenames)
      /\ \A n \in Listed : n \in NamesOf(store') ]_vars

\* C33: the only file ever removed is the grid image of the invocation that
\* is splitting it, and no name wait_for_images has returned is removed
\* afterwards: a listing runs before the grid is written or after the split
\* is over, so a grid image it returns is one that was kept, because the
\* split or the removal failed.
C33_ListedNamesAreNeverDeleted ==
  [][ /\ \A n \in NamesOf(store) \ NamesOf(store') :
           tool.pc = "split" /\ n = tool.composite /\ n \in Composites
      /\ \A n \in Listed : n \in NamesOf(store')
      /\ \A n \in Composites :
           InSeq(n, req'.filenames) /\ ~InSeq(n, req.filenames)
             => tool.pc # "split" /\ n \in NamesOf(store) ]_vars

\* wait_for_images has listed the quadrants of a grid image that the
\* invocation removed, and had listed the directory before the invocation too
C33_Witness ==
  /\ req.kind = "poll" /\ req.lists >= 2
  /\ tool.kind = "generate" /\ tool.pc = "done" /\ tool.ok
  /\ tool.composite \notin NamesOf(store)
  /\ \E i \in 1..4 : InSeq(QuadrantName(tool.composite, i), req.filenames)

\* the chat handler answers 200 in this step
ChatAnswers ==
  req.kind = "chat" /\ req.pc # "done" /\ req'.pc = "done" /\ resp'.status = 200

\* C34: every name a chat response carries, and the name the chat handler
\* records in the session memory, is of a file last modified no earlier than
\* 5 seconds before the request started, whatever the agent's final text says.
C34_ChatKeepsToTheThreshold ==
  [][ ChatAnswers =>
        /\ \A i \in 1..Len(resp'.filenames) :
             MTime(store, resp'.filenames[i]) >= req.start - ChatSlack
        /\ memory' # memory =>
             /\ get_most_recent(memory') \in NamesOf(store)
             /\ MTime(store, get_most_recent(memory')) >= req.start - ChatSlack ]_vars

\* a chat whose agent reported images has answered with the names of files
\* within the threshold and recorded one, while the directory also holds a
\* PNG file modified earlier than 5 seconds before the request started
C34_Witness ==
  /\ req.kind = "chat" /\ req.pc = "done" /\ resp.status = 200
  /\ req.message = MsgClaimsSuccess
  /\ resp.filenames # <<>>
  /\ get_most_recent(memory) = resp.filenames[1]
  /\ \E n \in NamesOf(store) :
       /\ EndsWithPng(n) /\ MTime(store, n) < req.start - ChatSlack
       /\ ~InSeq(n, resp.filenames)

\* C35: in a generate or edit request the delegated call writes only while
\* its event stream is being consumed, before wait_for_images lists for the
\* first time; at that first listing every file it wrote is in the upload
\* directory, and is returned if it is a PNG with the prefix asked for and
\* the limit leaves room for every such file.
C35_FirstListingFollowsTheStream ==
  [][ req.kind \in {"generate", "edit"} =>
        /\ (req'.id = req.id /\ req'.mine # req.mine) => req.pc = "run" /\ req.lists = 0
        /\ (req.lists = 0 /\ req'.lists = 1) =>
             /\ req.pc = "wait"
             /\ \A n \in req.mine :
                  /\ n \in NamesOf(store)
                  /\ (n \in Matching(store, req.prefix)
                        /\ Cardinality(Matching(store, req.prefix)) <= req.limit)
                       => InSeq(n, req'.filenames) ]_vars

\* the first listing of an edit request has returned the file its delegated
\* call wrote
C35_Witness ==
  /\ req.kind = "edit" /\ req.pc = "returned" /\ req.lists = 1
  /\ req.mine # {}
  /\ \A n \in req.mine : InSeq(n, req.filenames)

\* C36: last_generated never holds a name that starts with "edited_", and
\* last_edited holds only names that start with it.
C36_PointersKeepTheirKind ==
  /\ memory.last_generated # NoName => ~StartsWith(memory.last_generated, "edited_")
  /\ memory.last_edited # NoName => StartsWith(memory.last_edited, "edited_")

\* the pointer names an entry of the recent list
Tracked(pointer) ==
  InSeq(pointer, memory.recent_images)

\* C37 as stated: a pointer that is set names a member of the recent list.
C37_SetPointersAreTracked ==
  /\ memory.last_generated # NoName => Tracked(memory.last_generated)
  /\ memory.last_edited # NoName => Tracked(memory.last_edited)

\* C37: the pointer that the last setter call set names a member of the
\* recent list, and so does every set pointer as long as no more than ten
\* different names have been recorded; with an eleventh the list drops its
\* oldest name, which a pointer may still hold.
C37_TrackedUntilEvicted ==
  /\ log.setter = "set_last_generated" => Tracked(memory.last_generated)
  /\ log.setter = "set_last_edited" => Tracked(memory.last_edited)
  /\ Len(log.order) <= RecentCapacity => C37_SetPointersAreTracked

\* ten names have been recorded, the first as generated and the others as
\* edited: both pointers are in the full list, last_generated as its oldest
\* entry
C37_Witness ==
  /\ Len(log.order) = RecentCapacity
  /\ Len(memory.recent_images) = RecentCapacity
  /\ memory.last_generated = memory.recent_images[RecentCapacity]
  /\ memory.last_edited = memory.recent_images[1]
  /\ memory.last_edited # memory.last_generated

\* C38: the recent list is empty exactly when both pointers are unset;
\* get_most_recent returns None exactly when no setter was ever called, and
\* whenever it returns a name it is the first entry of the recent list, never
\* a pointer reached through its fallback.
C38_EmptyOnlyWhenNothingRecorded ==
  /\ memory.recent_images = <<>>
       <=> (memory.last_generated = NoName /\ memory.last_edited = NoName)
  /\ get_most_recent(memory) = NoName <=> log.calls = 0
  /\ get_most_recent(memory) # NoName
       => /\ memory.recent_images # <<>>
          /\ get_most_recent(memory) = memory.recent_images[1]

\* both pointers are set and get_most_recent returns a third name, the head
\* of the recent list
C38_Witness ==
  /\ log.calls > 0
  /\ memory.last_generated # NoName /\ memory.last_edited # NoName
  /\ get_most_recent(memory) \notin {NoName, memory.last_generated, memory.last_edited}

\* C39: a listing that raises inside list_images gives wait_for_images the
\* empty list, on which it sleeps again while waited < max_wait_time and
\* returns otherwise, as on a listing that matched nothing; a call whose
\* every listing raised returns the empty list once waited has reached
\* max_wait_time, which is what a timeout returns.
C39_ListingErrorIsAnEmptyTick ==
  [][ /\ req'.raised > req.raised =>
           /\ req'.filenames = <<>>
           /\ req'.pc = IF req'.waited < req'.max_wait_time THEN "sleep" ELSE "returned"
      /\ (req'.kind = "poll" /\ req'.pc = "returned" /\ req'.raised = req'.lists) =>
           /\ req'.filenames = <<>>
           /\ req'.waited >= req'.max_wait_time
           /\ req'.waited < req'.max_wait_time + req'.poll_interval ]_vars

\* a call has returned the empty list after a wait in which every listing
\* raised, while the directory holds a PNG file that matches the prefix
C39_Witness ==
  /\ req.kind = "poll" /\ req.pc = "returned"
  /\ req.lists >= 2 /\ req.raised = req.lists
  /\ req.filenames = <<>>
  /\ Matching(store, req.prefix) # {}

====
